---- MODULE Spec2Model ----
(***************************************************************************)
(* Candidate lifecycle and multi-interviewer interview sessions of the     *)
(* recruitment application.                                                *)
(*                                                                         *)
(* The store (the hosted database) is modelled by its tables; the pages    *)
(* (CandidateDetail, CandidateList, InterviewSessionForm, DecisionForm,    *)
(* InterviewAssignments, InterviewList) by their React state.  One action  *)
(* is one event handler, with every store call it makes.  A store call     *)
(* can fail (network, row-level security, constraint): DatabaseService     *)
(* then throws and the handler's catch block runs.                         *)
(***************************************************************************)
EXTENDS Integers, Sequences, FiniteSets, Bags, TLC

VARIABLES
    user,                 \* useAuth().user of the HR browser
    role,                 \* useAuth().role
    loading,              \* useAuth().loading
    storedUser,           \* localStorage item user of that browser
    path,                 \* the route the browser is at
    candidates,           \* table candidates: id -> status
    interview_sessions,   \* table interview_sessions: sequence of rows, id = index
    interviews,           \* table interviews: bag of rows (the uuid is abstracted)
    decisions,            \* table decisions: sequence of rows
    employees,            \* table employees: sequence of rows, id = index
    employee,             \* EmployeeProfile of each employee's browser: the loaded row
    listedUsers,          \* UserList: `users`, each with the employee row getUsers embedded
    viewingEmployee,      \* UserList: the user whose EmployeeDetailModal is open
    audit_logs,           \* table audit_logs: sequence of rows
    candidates_key,       \* table candidates: id -> its email and applied_position_id
    isSubmitted,          \* CandidateApplicationForm of each applicant's browser tab
    submitting,           \* CandidateApplicationForm: the createCandidate call in flight
    full_name,            \* UserForm: the full_name field
    existingUsernames,    \* UserForm: the usernames loaded by loadExistingUsernames
    form_username,        \* UserForm: the username field
    finalUsername,        \* generateUsername: local finalUsername of the running call
    counter,              \* generateUsername: local counter of the running call
    previousUsername,     \* UserForm: what an earlier call returned for the same fields
    candidate,            \* CandidateDetail: the loaded candidate (or NULL)
    showDecisionForm,     \* CandidateDetail: the decision form is open
    peerCandidate,        \* CandidateDetail in a second actor's browser: its candidate
    peerShowDecisionForm, \* CandidateDetail in a second actor's browser: its form is open
    selectedCandidates,   \* CandidateList: the checked rows, an array of ids
    showCreateForm,       \* InterviewList: the session form is mounted
    eligibleCandidates,   \* InterviewSessionForm: `candidates`, loaded by loadData
    interviewers,         \* InterviewSessionForm: `interviewers`, loaded by loadData
    selectedInterviewers, \* InterviewSessionForm: the checked interviewers, an array
    last                  \* history: the handler that made the last step

\* the public application form and the columns it fills
applyVars == <<candidates_key, isSubmitted, submitting>>

\* the employee records and the pages that edit them
employeeVars == <<employees, employee, listedUsers, viewingEmployee>>

\* the user creation form
userFormVars ==
    <<full_name, existingUsernames, form_username, finalUsername, counter, previousUsername>>

\* the rest of the auth context and the router
authVars == <<role, loading, storedUser, path>>

\* CandidateDetail in the browser of a second HR or ADMIN actor
peerVars == <<peerCandidate, peerShowDecisionForm>>

vars == <<user, authVars, peerVars, candidates, interview_sessions, interviews, decisions, candidate,
          showDecisionForm, selectedCandidates, showCreateForm, eligibleCandidates,
          interviewers, selectedInterviewers, applyVars, employeeVars, audit_logs,
          userFormVars, last>>

NULL == "NULL"

\* CandidateDetail before its candidate is loaded: useState(null)
NoCandidate == [id |-> NULL, status |-> NULL]

----------------------------------------------------------------------------
(* Bounds of the model *)

\* rows of interview_sessions the model lets the store hold
MaxSessions == 2
\* rows of decisions the model lets the store hold
MaxDecisions == 1

\* rows of interview_sessions the model lets the store hold while interviewers
\* record evaluations
MaxEvaluatedSessions == 1

\* rows of candidates the model lets the public form insert
MaxCandidates == 3

\* rows of employees the model lets the store hold
MaxEmployees == 2

\* rows of audit_logs the model lets logins and logouts write
MaxAuthLogs == 2

\* rows of decisions the model lets two actors insert
MaxPeerDecisions == 2

\* characters of the full names typed into the user form
MaxNameLen == 3

----------------------------------------------------------------------------
(* Schema: supabase/migrations/20250822074423_holy_union.sql *)

CandidateStatus ==
    {"SUBMITTED", "REJECTED", "APPROVED", "INTERVIEW", "OFFERED", "HIRED", "NOT_HIRED"}

SessionStatus == {"SCHEDULED", "IN_PROGRESS", "COMPLETED", "CANCELLED"}

InterviewResult == {"PASS", "FAIL", "PENDING"}

DecisionKind == {"HIRE", "NO_HIRE"}

\* table users: fixed rows, one of them disabled
users ==
    [u \in {"hr1", "emp1", "emp2", "emp3"} |->
        CASE u = "hr1"  -> [role |-> "HR",       status |-> "ACTIVE"]
          [] u = "emp1" -> [role |-> "EMPLOYEE", status |-> "ACTIVE"]
          [] u = "emp2" -> [role |-> "EMPLOYEE", status |-> "ACTIVE"]
          [] u = "emp3" -> [role |-> "EMPLOYEE", status |-> "DISABLED"]]

----------------------------------------------------------------------------
(* DatabaseService *)

\* a variant of updateCandidate that leaves a candidate in a final status alone
updateCandidate_guarded(tbl, id, updates, ok) ==
    IF ok /\ tbl[id] \notin {"REJECTED", "HIRED", "NOT_HIRED"}
    THEN [tbl EXCEPT ![id] = updates.status] ELSE tbl

\* updateCandidate(id, updates): UPDATE candidates SET ... WHERE id; no check of
\* the current status.  ok = FALSE: the store answers with an error, nothing is
\* written and the call throws.
updateCandidate(tbl, id, updates, ok) ==
    IF ok THEN [tbl EXCEPT ![id] = updates.status] ELSE tbl

\* a variant of createInterviewSession that stores the session as completed
createInterviewSession_completed(tbl, sessionData, ok) ==
    IF ok THEN Append(tbl, [sessionData EXCEPT !.status = "COMPLETED"]) ELSE tbl

\* createInterviewSession(sessionData): INSERT one row
createInterviewSession(tbl, sessionData, ok) ==
    IF ok THEN Append(tbl, sessionData) ELSE tbl

\* createInterview(interviewData): INSERT one row
createInterview(tbl, interviewData, ok) ==
    IF ok THEN tbl (+) SetToBag({interviewData}) ELSE tbl

\* createDecision(decisionData): INSERT one row
createDecision(tbl, decisionData, ok) ==
    IF ok THEN Append(tbl, decisionData) ELSE tbl

----------------------------------------------------------------------------
(* History: the handler that made the last step.  Every handler sets it;   *)
(* a handler that calls no store write sets NoLast.                        *)
(*   op: the operation, outcome: how it ended, cand: the candidate it was  *)
(*   about (NULL for a bulk operation), to: the status it asked for,       *)
(*   actor: the signed-in user of the browser that ran it.                 *)

NoLast ==
    [op |-> "none", outcome |-> "none", cand |-> NULL, to |-> NULL, actor |-> NULL,
     detail |-> NULL]

\* a step with more to tell: detail, for an evaluation the result submitted
\* and whether it set an evaluated row back to PENDING
LastWith(actor, op, outcome, cand, to, detail) ==
    [op |-> op, outcome |-> outcome, cand |-> cand, to |-> to, actor |-> actor,
     detail |-> detail]

LastBy(actor, op, outcome, cand, to) == LastWith(actor, op, outcome, cand, to, NULL)

\* a step of the HR browser
Last(op, outcome, cand, to) == LastBy(user, op, outcome, cand, to)

----------------------------------------------------------------------------
(* CandidateDetail (pages/Candidates/CandidateDetail.tsx) *)

\* getCandidateById: the row as stored now
getCandidateById(id) == [id |-> id, status |-> candidates[id]]

\* mounting the page for candidate id runs loadCandidate(id)
loadCandidate(id) ==
    /\ candidate' = getCandidateById(id)
    /\ showDecisionForm' = FALSE
    /\ UNCHANGED <<applyVars, employeeVars, userFormVars, audit_logs,
                   user, authVars, peerVars, candidates, interview_sessions, interviews, decisions,
                   selectedCandidates, showCreateForm, eligibleCandidates,
                   interviewers, selectedInterviewers>>
    /\ last' = NoLast

\* a variant that lets an approved candidate be offered the job at once
getAvailableActions_skipInterview(cand) ==
    IF cand = NoCandidate THEN {}
    ELSE CASE cand.status = "SUBMITTED" ->
                {[kind |-> "updateCandidateStatus", status |-> "APPROVED"],
                 [kind |-> "updateCandidateStatus", status |-> "REJECTED"]}
           [] cand.status = "APPROVED" ->
                {[kind |-> "updateCandidateStatus", status |-> "OFFERED"]}
           [] cand.status = "INTERVIEW" ->
                {[kind |-> "setShowDecisionForm", status |-> NULL]}
           [] cand.status = "OFFERED" ->
                {[kind |-> "updateCandidateStatus", status |-> "HIRED"],
                 [kind |-> "updateCandidateStatus", status |-> "NOT_HIRED"]}
           [] OTHER -> {}

\* the buttons the page renders for the loaded candidate
getAvailableActions(cand) ==
    IF cand = NoCandidate THEN {}
    ELSE CASE cand.status = "SUBMITTED" ->
                {[kind |-> "updateCandidateStatus", status |-> "APPROVED"],
                 [kind |-> "updateCandidateStatus", status |-> "REJECTED"]}
           [] cand.status = "APPROVED" ->
                {[kind |-> "updateCandidateStatus", status |-> "INTERVIEW"]}
           [] cand.status = "INTERVIEW" ->
                {[kind |-> "setShowDecisionForm", status |-> NULL]}
           [] cand.status = "OFFERED" ->
                {[kind |-> "updateCandidateStatus", status |-> "HIRED"],
                 [kind |-> "updateCandidateStatus", status |-> "NOT_HIRED"]}
           [] OTHER -> {}

\* updateCandidateStatus(status): write, then reload the page's candidate
\* (loadCandidate catches its own error: okLoad = FALSE keeps the old copy)
updateCandidateStatus(status, ok, okLoad) ==
    /\ candidate # NoCandidate
    /\ LET tbl == updateCandidate(candidates, candidate.id, [status |-> status], ok)
       IN /\ candidates' = tbl
          /\ candidate' = IF ok /\ okLoad
                          THEN [id |-> candidate.id, status |-> tbl[candidate.id]]
                          ELSE candidate
          /\ last' = Last("updateCandidateStatus", IF ok THEN "ok" ELSE "StoreError",
                          candidate.id, status)
    /\ UNCHANGED <<applyVars, employeeVars, userFormVars, audit_logs,
                   user, authVars, peerVars, interview_sessions, interviews, decisions, showDecisionForm,
                   selectedCandidates, showCreateForm, eligibleCandidates,
                   interviewers, selectedInterviewers>>

\* a click on one of the rendered status buttons
ClickStatusAction ==
    \E a \in getAvailableActions(candidate), ok \in BOOLEAN, okLoad \in BOOLEAN :
        /\ a.kind = "updateCandidateStatus"
        /\ updateCandidateStatus(a.status, ok, okLoad)

\* a click on "Dua ra quyet dinh": setShowDecisionForm(true)
ClickDecisionAction ==
    /\ \E a \in getAvailableActions(candidate) : a.kind = "setShowDecisionForm"
    /\ ~showDecisionForm
    /\ showDecisionForm' = TRUE
    /\ UNCHANGED <<applyVars, employeeVars, userFormVars, audit_logs,
                   user, authVars, peerVars, candidates, interview_sessions, interviews, decisions,
                   candidate, selectedCandidates, showCreateForm, eligibleCandidates,
                   interviewers, selectedInterviewers>>
    /\ last' = NoLast

----------------------------------------------------------------------------
(* DecisionForm (components/Forms/DecisionForm.tsx) *)

\* a variant that hires at once
decisionNewStatus_hired(decision) == IF decision = "HIRE" THEN "HIRED" ELSE "NOT_HIRED"

\* the status the form writes for a decision
decisionNewStatus(decision) == IF decision = "HIRE" THEN "OFFERED" ELSE "NOT_HIRED"

\* a variant of onSubmit that updates the candidate whatever createDecision did
decisionUpdated_anyway(okDecision, okUpdate) == okUpdate

\* onSubmit reaches updateCandidate only when createDecision has not thrown,
\* and ends well only when updateCandidate has not thrown either
decisionUpdated(okDecision, okUpdate) == okDecision /\ okUpdate

\* onSubmit(data): createDecision, then updateCandidate; on success the page
\* closes the form and reloads the candidate.
\*   okDecision, okUpdate: whether the store accepts each call
DecisionForm_onSubmit(decision, okDecision, okUpdate) ==
    /\ showDecisionForm
    /\ candidate # NoCandidate
    /\ user # NULL
    /\ LET candidateId == candidate.id
           newStatus == decisionNewStatus(decision)
           dec == createDecision(decisions,
                     [candidate_id |-> candidateId, decision |-> decision,
                      decided_by |-> user], okDecision)
           updated == decisionUpdated(okDecision, okUpdate)
           tbl == updateCandidate(candidates, candidateId, [status |-> newStatus], updated)
       IN /\ decisions' = dec
          /\ candidates' = tbl
          /\ showDecisionForm' = ~updated
          /\ candidate' = IF updated THEN [id |-> candidateId, status |-> tbl[candidateId]]
                          ELSE candidate
          /\ last' = Last("recordDecision", IF updated THEN "ok" ELSE "StoreError",
                          candidateId, newStatus)
    /\ UNCHANGED <<applyVars, employeeVars, userFormVars, audit_logs,
                   user, authVars, peerVars, interview_sessions, interviews, selectedCandidates,
                   showCreateForm, eligibleCandidates, interviewers,
                   selectedInterviewers>>

RecordDecision ==
    \E decision \in DecisionKind, okDecision \in BOOLEAN, okUpdate \in BOOLEAN :
        DecisionForm_onSubmit(decision, okDecision, okUpdate)

\* onCancel
DecisionForm_onCancel ==
    /\ showDecisionForm
    /\ showDecisionForm' = FALSE
    /\ UNCHANGED <<applyVars, employeeVars, userFormVars, audit_logs,
                   user, authVars, peerVars, candidates, interview_sessions, interviews, decisions,
                   candidate, selectedCandidates, showCreateForm, eligibleCandidates,
                   interviewers, selectedInterviewers>>
    /\ last' = NoLast

----------------------------------------------------------------------------
(* CandidateDetail and DecisionForm in the browser of a second actor, the    *)
(* demo administrator: the same handlers on that browser's state            *)

\* useAuth().user of the second browser
peerUser == "demo-admin"

\* loadCandidate(id) in the second browser
peer_loadCandidate(id) ==
    /\ peerCandidate' = getCandidateById(id)
    /\ peerShowDecisionForm' = FALSE
    /\ last' = NoLast
    /\ UNCHANGED <<applyVars, employeeVars, userFormVars, audit_logs, user, authVars,
                   candidates, interview_sessions, interviews, decisions, candidate,
                   showDecisionForm, selectedCandidates, showCreateForm,
                   eligibleCandidates, interviewers, selectedInterviewers>>

\* updateCandidateStatus(status) in the second browser
peer_updateCandidateStatus(status, ok, okLoad) ==
    /\ peerCandidate # NoCandidate
    /\ LET tbl == updateCandidate(candidates, peerCandidate.id, [status |-> status], ok)
       IN /\ candidates' = tbl
          /\ peerCandidate' = IF ok /\ okLoad
                              THEN [id |-> peerCandidate.id, status |-> tbl[peerCandidate.id]]
                              ELSE peerCandidate
          /\ last' = LastBy(peerUser, "updateCandidateStatus",
                            IF ok THEN "ok" ELSE "StoreError", peerCandidate.id, status)
    /\ UNCHANGED <<applyVars, employeeVars, userFormVars, audit_logs, user, authVars,
                   interview_sessions, interviews, decisions, candidate,
                   showDecisionForm, peerShowDecisionForm, selectedCandidates,
                   showCreateForm, eligibleCandidates, interviewers,
                   selectedInterviewers>>

peer_ClickStatusAction ==
    \E a \in getAvailableActions(peerCandidate), ok \in BOOLEAN, okLoad \in BOOLEAN :
        /\ a.kind = "updateCandidateStatus"
        /\ peer_updateCandidateStatus(a.status, ok, okLoad)

\* setShowDecisionForm(true) in the second browser
peer_ClickDecisionAction ==
    /\ \E a \in getAvailableActions(peerCandidate) : a.kind = "setShowDecisionForm"
    /\ ~peerShowDecisionForm
    /\ peerShowDecisionForm' = TRUE
    /\ last' = NoLast
    /\ UNCHANGED <<applyVars, employeeVars, userFormVars, audit_logs, user, authVars,
                   candidates, interview_sessions, interviews, decisions, candidate,
                   showDecisionForm, peerCandidate, selectedCandidates, showCreateForm,
                   eligibleCandidates, interviewers, selectedInterviewers>>

\* DecisionForm.onSubmit(data) in the second browser
peer_DecisionForm_onSubmit(decision, okDecision, okUpdate) ==
    /\ peerShowDecisionForm
    /\ peerCandidate # NoCandidate
    /\ LET candidateId == peerCandidate.id
           newStatus == decisionNewStatus(decision)
           dec == createDecision(decisions,
                     [candidate_id |-> candidateId, decision |-> decision,
                      decided_by |-> peerUser], okDecision)
           updated == decisionUpdated(okDecision, okUpdate)
           tbl == updateCandidate(candidates, candidateId, [status |-> newStatus], updated)
       IN /\ decisions' = dec
          /\ candidates' = tbl
          /\ peerShowDecisionForm' = ~updated
          /\ peerCandidate' = IF updated
                              THEN [id |-> candidateId, status |-> tbl[candidateId]]
                              ELSE peerCandidate
          /\ last' = LastBy(peerUser, "recordDecision",
                            IF updated THEN "ok" ELSE "StoreError", candidateId, newStatus)
    /\ UNCHANGED <<applyVars, employeeVars, userFormVars, audit_logs, user, authVars,
                   interview_sessions, interviews, candidate, showDecisionForm,
                   selectedCandidates, showCreateForm, eligibleCandidates,
                   interviewers, selectedInterviewers>>

peer_RecordDecision ==
    \E decision \in DecisionKind, okDecision \in BOOLEAN, okUpdate \in BOOLEAN :
        peer_DecisionForm_onSubmit(decision, okDecision, okUpdate)

\* DecisionForm onCancel in the second browser
peer_DecisionForm_onCancel ==
    /\ peerShowDecisionForm
    /\ peerShowDecisionForm' = FALSE
    /\ last' = NoLast
    /\ UNCHANGED <<applyVars, employeeVars, userFormVars, audit_logs, user, authVars,
                   candidates, interview_sessions, interviews, decisions, candidate,
                   showDecisionForm, peerCandidate, selectedCandidates, showCreateForm,
                   eligibleCandidates, interviewers, selectedInterviewers>>

----------------------------------------------------------------------------
(* CandidateList (pages/Candidates/CandidateList.tsx) *)

\* the rows of the table: every loaded candidate, whatever its status (the
\* search box is empty and the status filter is 'ALL', their initial values;
\* a filter only hides rows, and a hidden row stays selected)
filteredCandidates == DOMAIN candidates

SeqToSet(s) == {s[i] : i \in 1..Len(s)}

RECURSIVE SetToSeq(_)
SetToSeq(S) ==
    IF S = {} THEN <<>>
    ELSE LET x == CHOOSE y \in S : TRUE IN <<x>> \o SetToSeq(S \ {x})

RECURSIVE filter(_, _)
\* Array.prototype.filter(id => id !== x)
filter(s, x) ==
    IF s = <<>> THEN <<>>
    ELSE IF Head(s) = x THEN filter(Tail(s), x) ELSE <<Head(s)>> \o filter(Tail(s), x)

includes(s, x) == x \in SeqToSet(s)

\* handleSelectAll(checked); the header checkbox is checked exactly when every
\* row is selected, so a click sends the opposite
handleSelectAll ==
    /\ filteredCandidates # {}
    /\ LET checked == ~(Len(selectedCandidates) = Cardinality(filteredCandidates))
       IN selectedCandidates' = IF checked THEN SetToSeq(filteredCandidates) ELSE <<>>
    /\ UNCHANGED <<applyVars, employeeVars, userFormVars, audit_logs,
                   user, authVars, peerVars, candidates, interview_sessions, interviews, decisions,
                   candidate, showDecisionForm, showCreateForm, eligibleCandidates,
                   interviewers, selectedInterviewers>>
    /\ last' = NoLast

\* handleSelectCandidate(candidateId, checked); the checkbox of a row is
\* checked exactly when the row is selected, so a click sends the opposite
handleSelectCandidate(candidateId) ==
    /\ candidateId \in filteredCandidates
    /\ LET checked == ~includes(selectedCandidates, candidateId)
       IN selectedCandidates' =
             IF checked THEN Append(selectedCandidates, candidateId)
             ELSE filter(selectedCandidates, candidateId)
    /\ UNCHANGED <<applyVars, employeeVars, userFormVars, audit_logs,
                   user, authVars, peerVars, candidates, interview_sessions, interviews, decisions,
                   candidate, showDecisionForm, showCreateForm, eligibleCandidates,
                   interviewers, selectedInterviewers>>
    /\ last' = NoLast

\* handleBulkApprove / handleBulkReject: Promise.all of one updateCandidate per
\* selected id.  accepted: the ids whose update the store accepts; the others
\* throw, the catch block runs and the selection is kept.
handleBulk(status, accepted) ==
    /\ Len(selectedCandidates) > 0
    /\ accepted \subseteq SeqToSet(selectedCandidates)
    /\ LET tbl == [c \in DOMAIN candidates |->
                     updateCandidate(candidates, c, [status |-> status],
                                     c \in accepted)[c]]
           allOk == accepted = SeqToSet(selectedCandidates)
       IN /\ candidates' = tbl
          /\ selectedCandidates' = IF allOk THEN <<>> ELSE selectedCandidates
          /\ last' = Last("handleBulk", IF allOk THEN "ok" ELSE "StoreError",
                          NULL, status)
    /\ UNCHANGED <<applyVars, employeeVars, userFormVars, audit_logs,
                   user, authVars, peerVars, interview_sessions, interviews, decisions, candidate,
                   showDecisionForm, showCreateForm, eligibleCandidates,
                   interviewers, selectedInterviewers>>

handleBulkApprove ==
    \E accepted \in SUBSET (DOMAIN candidates) : handleBulk("APPROVED", accepted)

handleBulkReject ==
    \E accepted \in SUBSET (DOMAIN candidates) : handleBulk("REJECTED", accepted)

----------------------------------------------------------------------------
(* InterviewSessionForm (components/Forms/InterviewSessionForm.tsx) *)

\* loadData: the candidates and the users the form offers
loadData_eligibleCandidates ==
    {c \in DOMAIN candidates : candidates[c] \in {"APPROVED", "INTERVIEW"}}

loadData_eligibleInterviewers ==
    {u \in DOMAIN users :
        users[u].status = "ACTIVE" /\ users[u].role \in {"HR", "ADMIN", "EMPLOYEE"}}

\* InterviewList: setShowCreateForm(true) mounts the form, which runs loadData
OpenCreateForm ==
    /\ ~showCreateForm
    /\ showCreateForm' = TRUE
    /\ eligibleCandidates' = loadData_eligibleCandidates
    /\ interviewers' = loadData_eligibleInterviewers
    /\ selectedInterviewers' = <<>>
    /\ UNCHANGED <<applyVars, employeeVars, userFormVars, audit_logs,
                   user, authVars, peerVars, candidates, interview_sessions, interviews, decisions,
                   candidate, showDecisionForm, selectedCandidates>>
    /\ last' = NoLast

\* onCancel: setShowCreateForm(false) unmounts the form
InterviewSessionForm_onCancel ==
    /\ showCreateForm
    /\ showCreateForm' = FALSE
    /\ eligibleCandidates' = {}
    /\ interviewers' = {}
    /\ selectedInterviewers' = <<>>
    /\ UNCHANGED <<applyVars, employeeVars, userFormVars, audit_logs,
                   user, authVars, peerVars, candidates, interview_sessions, interviews, decisions,
                   candidate, showDecisionForm, selectedCandidates>>
    /\ last' = NoLast

\* a variant that appends without looking for the id
toggle_alwaysAppend(prev, interviewerId) == Append(prev, interviewerId)

\* the new value of selectedInterviewers
toggle(prev, interviewerId) ==
    IF includes(prev, interviewerId) THEN filter(prev, interviewerId)
    ELSE Append(prev, interviewerId)

\* handleInterviewerToggle(interviewerId)
handleInterviewerToggle(interviewerId) ==
    /\ showCreateForm
    /\ interviewerId \in interviewers
    /\ selectedInterviewers' = toggle(selectedInterviewers, interviewerId)
    /\ UNCHANGED <<applyVars, employeeVars, userFormVars, audit_logs,
                   user, authVars, peerVars, candidates, interview_sessions, interviews, decisions,
                   candidate, showDecisionForm, selectedCandidates, showCreateForm,
                   eligibleCandidates, interviewers>>
    /\ last' = NoLast

\* the row onSubmit inserts for one interviewer
newInterview(candidate_id, interviewerId, sessionId) ==
    [candidate_id |-> candidate_id, interviewer_id |-> interviewerId,
     interview_session_id |-> sessionId, tech_notes |-> "", soft_notes |-> "",
     result |-> "PENDING"]

RECURSIVE createInterviews(_, _, _, _, _)
\* Promise.all(selectedInterviewers.map(id => createInterview(...))): one insert
\* per element of the array; the inserts the store accepts are written even
\* when another one fails
createInterviews(tbl, sel, candidate_id, sessionId, accepted) ==
    IF sel = <<>> THEN tbl
    ELSE createInterviews(
            createInterview(tbl, newInterview(candidate_id, Head(sel), sessionId),
                            Head(sel) \in accepted),
            Tail(sel), candidate_id, sessionId, accepted)

\* a variant that leaves the candidate approved
onSubmit_candidateUpdate_approved == [status |-> "APPROVED"]

\* the update onSubmit sends for the candidate
onSubmit_candidateUpdate == [status |-> "INTERVIEW"]

\* a variant without the guard
noInterviewerSelected_never(sel) == FALSE

\* the guard of onSubmit on the selection
noInterviewerSelected(sel) == Len(sel) = 0

\* onSubmit(data), data.candidate_id chosen in the form's candidate list.
\*   okSession: the store accepts the session insert
\*   accepted:  the interviewers whose interview insert the store accepts
\*   okUpdate:  the store accepts the candidate update
InterviewSessionForm_onSubmit(candidate_id, okSession, accepted, okUpdate) ==
    /\ showCreateForm
    /\ user # NULL
    /\ candidate_id \in eligibleCandidates
    /\ IF noInterviewerSelected(selectedInterviewers)
       THEN /\ last' = Last("createSession", "NoInterviewerSelected", candidate_id,
                            NULL)
            /\ UNCHANGED <<candidates, interview_sessions, interviews,
                           showCreateForm, eligibleCandidates, interviewers,
                           selectedInterviewers>>
       ELSE LET sessionId == Len(interview_sessions) + 1
                   sess == createInterviewSession(interview_sessions,
                              [id |-> sessionId, candidate_id |-> candidate_id,
                               created_by |-> user, status |-> "SCHEDULED"], okSession)
                   ivs == IF okSession
                          THEN createInterviews(interviews, selectedInterviewers,
                                                candidate_id, sessionId, accepted)
                          ELSE interviews
                   allInserted == okSession
                                  /\ SeqToSet(selectedInterviewers) \subseteq accepted
                   success == allInserted /\ okUpdate
                   tbl == updateCandidate(candidates, candidate_id,
                                          onSubmit_candidateUpdate, success)
               IN /\ interview_sessions' = sess
                  /\ interviews' = ivs
                  /\ candidates' = tbl
                  /\ showCreateForm' = ~success
                  /\ eligibleCandidates' = IF success THEN {} ELSE eligibleCandidates
                  /\ interviewers' = IF success THEN {} ELSE interviewers
                  /\ selectedInterviewers' = IF success THEN <<>> ELSE selectedInterviewers
                  /\ last' = Last("createSession",
                                  IF success THEN "ok" ELSE "StoreError",
                                  candidate_id, onSubmit_candidateUpdate.status)
    /\ UNCHANGED <<applyVars, employeeVars, userFormVars, audit_logs,
                   user, authVars, peerVars, decisions, candidate, showDecisionForm, selectedCandidates>>

\* a submit of the form; answers: the answers the store may give to a write
\* (TRUE: accepted, FALSE: an error)
CreateSession(answers) ==
    \E candidate_id \in DOMAIN candidates, okSession \in answers,
       accepted \in SUBSET SeqToSet(selectedInterviewers), okUpdate \in answers :
        /\ \A u \in SeqToSet(selectedInterviewers) \ accepted : FALSE \in answers
        /\ (~okSession => accepted = {} /\ okUpdate)
        /\ (accepted # SeqToSet(selectedInterviewers) => okUpdate)
        /\ InterviewSessionForm_onSubmit(candidate_id, okSession, accepted, okUpdate)

----------------------------------------------------------------------------
(* InterviewAssignments (pages/Employee/InterviewAssignments.tsx) *)

\* what an interviewer can type into the evaluation form
NotesInputs == {"too short", "clear and thorough"}

\* interviewSchema (utils/validation.ts): both notes of 10 characters or more
interviewSchema(data) ==
    /\ Len(data.tech_notes) >= 10
    /\ Len(data.soft_notes) >= 10
    /\ data.result \in {"PASS", "FAIL", "PENDING"}

\* getMyInterviews(userId): the rows assigned to the interviewer
getMyInterviews(userId) ==
    {r \in BagToSet(interviews) : r.interviewer_id = userId}

\* a variant that overwrites the table with the updated row
updateInterview_wholeTable(tbl, row, updates, ok) ==
    IF ok
    THEN SetToBag({[row EXCEPT !.tech_notes = updates.tech_notes,
                               !.soft_notes = updates.soft_notes,
                               !.result = updates.result]})
    ELSE tbl

\* a variant that keeps the result of a row that is already evaluated
updateInterview_firstWins(tbl, row, updates, ok) ==
    IF ok
    THEN (tbl (-) SetToBag({row}))
         (+) SetToBag({[row EXCEPT !.tech_notes = updates.tech_notes,
                                   !.soft_notes = updates.soft_notes,
                                   !.result = IF row.result = "PENDING"
                                              THEN updates.result ELSE @]})
    ELSE tbl

\* updateInterview(id, updates): UPDATE one row
updateInterview(tbl, row, updates, ok) ==
    IF ok
    THEN (tbl (-) SetToBag({row}))
         (+) SetToBag({[row EXCEPT !.tech_notes = updates.tech_notes,
                                   !.soft_notes = updates.soft_notes,
                                   !.result = updates.result]})
    ELSE tbl

\* onSubmit(data) of the evaluation form of interviewer userId for the row
\* picked by handleInterviewClick; handleSubmit calls it only with data that
\* passes interviewSchema
\*   detail: what the history keeps of the call besides its outcome
InterviewAssignments_onSubmit_traced(userId, selectedInterview, data, ok, detail) ==
    /\ selectedInterview \in getMyInterviews(userId)
    /\ interviewSchema(data)
    /\ interviews' = updateInterview(interviews, selectedInterview, data, ok)
    /\ last' = LastWith(userId, "recordEvaluation", IF ok THEN "ok" ELSE "StoreError",
                        selectedInterview.candidate_id, NULL, detail)
    /\ UNCHANGED <<applyVars, employeeVars, userFormVars, audit_logs,
                   user, authVars, peerVars, candidates, interview_sessions, decisions, candidate,
                   showDecisionForm, selectedCandidates, showCreateForm,
                   eligibleCandidates, interviewers, selectedInterviewers>>

InterviewAssignments_onSubmit(userId, selectedInterview, data, ok) ==
    InterviewAssignments_onSubmit_traced(userId, selectedInterview, data, ok, NULL)

RecordEvaluation ==
    \E userId \in DOMAIN users, row \in BagToSet(interviews),
       tech \in NotesInputs, soft \in NotesInputs,
       result \in InterviewResult, ok \in BOOLEAN :
        InterviewAssignments_onSubmit(userId, row,
            [tech_notes |-> tech, soft_notes |-> soft, result |-> result], ok)

\* the same, the history keeping the result submitted and whether the call set
\* an evaluated row back to PENDING
RecordEvaluationAgain ==
    \E userId \in DOMAIN users, row \in BagToSet(interviews),
       tech \in NotesInputs, soft \in NotesInputs,
       result \in InterviewResult, ok \in BOOLEAN :
        InterviewAssignments_onSubmit_traced(userId, row,
            [tech_notes |-> tech, soft_notes |-> soft, result |-> result], ok,
            [result |-> result,
             reopened |-> row.result # "PENDING" /\ result = "PENDING"])

\* a variant of the policy that lets every signed-in user update every row
interviewers_can_update_assigned_anyone(uid, row) == TRUE

\* row-level security of UPDATE on interviews, policy
\* interviewers_can_update_assigned (with hr_admin_can_manage_interviews): the
\* row's interviewer, or an active HR or ADMIN user; uid is auth.uid()
interviewers_can_update_assigned(uid, row) ==
    \/ row.interviewer_id = uid
    \/ /\ uid \in DOMAIN users
       /\ users[uid].role \in {"HR", "ADMIN"}
       /\ users[uid].status = "ACTIVE"

\* DatabaseService.updateInterview(id, updates) called with the session of user
\* uid outside the evaluation form, for any row id and any updates: the store
\* updates the row when the policy admits it; otherwise no row is returned and
\* the call throws.  ok = FALSE: the store fails for another reason.
updateInterview_direct(uid, row, updates, ok) ==
    /\ row \in BagToSet(interviews)
    /\ LET allowed == interviewers_can_update_assigned(uid, row)
           written == ok /\ allowed
       IN /\ interviews' = updateInterview(interviews, row, updates, written)
          /\ last' = LastBy(uid, "updateInterview",
                            IF written THEN "ok"
                            ELSE IF allowed THEN "StoreError" ELSE "NotFound",
                            row.candidate_id, NULL)
    /\ UNCHANGED <<applyVars, employeeVars, userFormVars, audit_logs,
                   user, authVars, peerVars, candidates, interview_sessions, decisions, candidate,
                   showDecisionForm, selectedCandidates, showCreateForm,
                   eligibleCandidates, interviewers, selectedInterviewers>>

DirectUpdateInterview ==
    \E uid \in DOMAIN users, row \in BagToSet(interviews),
       tech \in NotesInputs, soft \in NotesInputs,
       result \in InterviewResult, ok \in BOOLEAN :
        updateInterview_direct(uid, row,
            [tech_notes |-> tech, soft_notes |-> soft, result |-> result], ok)

----------------------------------------------------------------------------
(* InterviewList (pages/Interviews/InterviewList.tsx) *)

\* the sub-bag of the rows of tbl that satisfy keep
BagFilter(tbl, keep(_)) ==
    [r \in {x \in BagToSet(tbl) : keep(x)} |-> tbl[r]]

\* getInterviewSessionsWithDetails: each session joined with its interviews
getInterviewSessionsWithDetails ==
    [i \in 1..Len(interview_sessions) |->
        [id |-> interview_sessions[i].id,
         candidate_id |-> interview_sessions[i].candidate_id,
         status |-> interview_sessions[i].status,
         interviews |->
            LET linked(r) == r.interview_session_id = interview_sessions[i].id
            IN BagFilter(interviews, linked)]]

\* a variant that truncates: Math.floor
MathRound_floor(num, den) == num \div den

\* Math.round(num / den) for num >= 0, den > 0: halves round up
MathRound(num, den) == (2 * num + den) \div (2 * den)

\* getSessionProgress(session)
getSessionProgress(session) ==
    LET notPending(i) == i.result # "PENDING"
        pass(i) == i.result = "PASS"
        totalInterviews == BagCardinality(session.interviews)
        completedInterviews == BagCardinality(BagFilter(session.interviews, notPending))
        passedInterviews == BagCardinality(BagFilter(session.interviews, pass))
    IN [total |-> totalInterviews,
        completed |-> completedInterviews,
        passed |-> passedInterviews,
        percentage |-> IF totalInterviews > 0
                       THEN MathRound(completedInterviews * 100, totalInterviews)
                       ELSE 0]

----------------------------------------------------------------------------
(* CandidateApplicationForm (components/Forms/CandidateApplicationForm.tsx) *)
(* and DatabaseService.createCandidate.  The form is public: every         *)
(* applicant has a browser tab of its own, and the store calls of          *)
(* different tabs interleave at each await.                                *)

\* the applicants' browser tabs
Tabs == {"tab1", "tab2"}

\* no createCandidate call in flight
NoRequest == [id |-> NULL]

\* positions with is_open = true, loaded by loadPositions
positions == {"p1", "p2"}

\* what an applicant can type as email and send as position ("": none picked,
\* "p3": a position that is not in the loaded list)
EmailInputs == {"a@mail", "A@mail", "b@mail"}

PositionInputs == positions \cup {"", "p3"}

\* String.prototype.toLowerCase on the emails an applicant can type
toLowerCase(str) == IF str = "A@mail" THEN "a@mail" ELSE str

\* candidateSchema (utils/validation.ts): the email is lower-cased, a position
\* must be picked
candidateSchema(data) ==
    [success |-> Len(data.applied_position_id) >= 1,
     data |-> [email |-> toLowerCase(data.email),
               applied_position_id |-> data.applied_position_id]]

\* a variant of the constraint that accepts every row
candidates_email_position_unique_dropped(keys, row) == TRUE

\* constraint candidates_email_position_unique: UNIQUE (email, applied_position_id)
candidates_email_position_unique(keys, row) ==
    \A c \in DOMAIN keys :
        ~(keys[c].email = row.email
          /\ keys[c].applied_position_id = row.applied_position_id)

\* gen_random_uuid(): an id no row has
newCandidateId ==
    CHOOSE id \in {"c1", "c2", "c3", "c4"} : id \notin DOMAIN candidates

\* createAuditLog(logData): INSERT one row; an error is logged, never thrown
createAuditLog(tbl, logData, ok) ==
    IF ok THEN Append(tbl, logData) ELSE tbl

\* a variant of createCandidate whose result depends on the audit insert
createCandidate_result_auditFails(okAudit) == IF okAudit THEN "ok" ELSE "StoreError"

\* how createCandidate ends once the candidate row is inserted: it returns the
\* row, whatever createAuditLog did
createCandidate_result(okAudit) == "ok"

\* onSubmit(data) up to the answer of the candidates insert inside
\* createCandidate.  okInsert = FALSE: the store fails for another reason than
\* the constraint.
CandidateApplicationForm_onSubmit(tab, formData, okInsert) ==
    /\ ~isSubmitted[tab]
    /\ submitting[tab] = NoRequest
    /\ candidateSchema(formData).success
    /\ LET data == candidateSchema(formData).data
           id == newCandidateId
           unique == candidates_email_position_unique(candidates_key, data)
       IN IF data.applied_position_id \notin positions
          THEN /\ last' = LastBy(NULL, "createCandidate", "InvalidPosition", NULL, NULL)
               /\ UNCHANGED <<candidates, candidates_key, submitting>>
          ELSE IF unique /\ okInsert
          THEN /\ candidates' = [c \in DOMAIN candidates \cup {id} |->
                                   IF c = id THEN "SUBMITTED" ELSE candidates[c]]
               /\ candidates_key' = [c \in DOMAIN candidates \cup {id} |->
                                       IF c = id THEN data ELSE candidates_key[c]]
               /\ submitting' = [submitting EXCEPT ![tab] = [id |-> id]]
               /\ last' = LastBy(NULL, "createCandidate", "inserted", id, "SUBMITTED")
          ELSE /\ last' = Last("createCandidate",
                               IF unique THEN "StoreError" ELSE "UniqueViolation",
                               NULL, NULL)
               /\ UNCHANGED <<candidates, candidates_key, submitting>>
    /\ UNCHANGED <<employeeVars, userFormVars, audit_logs, isSubmitted, user, authVars, peerVars, interview_sessions,
                   interviews, decisions, candidate, showDecisionForm,
                   selectedCandidates, showCreateForm, eligibleCandidates,
                   interviewers, selectedInterviewers>>

SubmitApplication ==
    \E tab \in Tabs, email \in EmailInputs, position \in PositionInputs,
       okInsert \in BOOLEAN :
        CandidateApplicationForm_onSubmit(tab,
            [email |-> email, applied_position_id |-> position], okInsert)

\* the rest of createCandidate and of onSubmit once the row is inserted:
\* createAuditLog, return data, setIsSubmitted(true)
CandidateApplicationForm_afterInsert(tab, okAudit) ==
    /\ submitting[tab] # NoRequest
    /\ LET id == submitting[tab].id
           result == createCandidate_result(okAudit)
       IN /\ audit_logs' = createAuditLog(audit_logs,
                              [action |-> "CANDIDATE_CREATED", target_id |-> id,
                               payload_json |-> [position_id |->
                                  candidates_key[id].applied_position_id]], okAudit)
          /\ isSubmitted' = [isSubmitted EXCEPT ![tab] = result = "ok"]
          /\ last' = LastBy(NULL, "createCandidate", result, id, "SUBMITTED")
    /\ submitting' = [submitting EXCEPT ![tab] = NoRequest]
    /\ UNCHANGED <<employeeVars, userFormVars, candidates_key, user, authVars, peerVars, candidates, interview_sessions,
                   interviews, decisions, candidate, showDecisionForm,
                   selectedCandidates, showCreateForm, eligibleCandidates,
                   interviewers, selectedInterviewers>>

AuditApplication ==
    \E tab \in Tabs, okAudit \in BOOLEAN :
        CandidateApplicationForm_afterInsert(tab, okAudit)

\* "Nop ho so khac": setIsSubmitted(false)
SubmitAnother ==
    \E tab \in Tabs :
        /\ isSubmitted[tab]
        /\ isSubmitted' = [isSubmitted EXCEPT ![tab] = FALSE]
        /\ last' = NoLast
        /\ UNCHANGED <<employeeVars, userFormVars, audit_logs, candidates_key, submitting, user, authVars, peerVars,
                       candidates, interview_sessions, interviews, decisions,
                       candidate, showDecisionForm, selectedCandidates,
                       showCreateForm, eligibleCandidates, interviewers,
                       selectedInterviewers>>

----------------------------------------------------------------------------
(* generateUsername (utils/validation.ts), called by UserForm.  A string is *)
(* a sequence of characters; a Vietnamese letter with diacritics is one     *)
(* character, written as its base letter followed by its marks: % breve,    *)
(* ^ circumflex, + horn, then the tone: < grave, > acute, . dot below,      *)
(* ? hook above, ~ tilde; dd is d with stroke.                              *)

\* the character classes of the replace calls
ClassA ==
    {"a<", "a>", "a.", "a?", "a~", "a^", "a^<", "a^>", "a^.", "a^?", "a^~",
     "a%", "a%<", "a%>", "a%.", "a%?", "a%~"}

ClassE ==
    {"e<", "e>", "e.", "e?", "e~", "e^", "e^<", "e^>", "e^.", "e^?", "e^~"}

ClassI ==
    {"i<", "i>", "i.", "i?", "i~"}

ClassO ==
    {"o<", "o>", "o.", "o?", "o~", "o^", "o^<", "o^>", "o^.", "o^?", "o^~",
     "o+", "o+<", "o+>", "o+.", "o+?", "o+~"}

ClassU ==
    {"u<", "u>", "u.", "u?", "u~", "u+", "u+<", "u+>", "u+.", "u+?", "u+~"}

ClassY ==
    {"y<", "y>", "y.", "y?", "y~"}

LowerLetters ==
    {"a", "b", "c", "d", "e", "f", "g", "h", "i", "j", "k", "l", "m", "n",
     "o", "p", "q", "r", "s", "t", "u", "v", "w", "x", "y", "z"}

DigitChars ==
    {"0", "1", "2", "3", "4", "5", "6", "7", "8", "9"}

WhiteSpace == {" "}

\* String.prototype.toLowerCase, one character
toLowerCaseChar(c) ==
    CASE c = "A" -> "a" [] c = "B" -> "b" [] c = "C" -> "c" [] c = "H" -> "h"
      [] c = "L" -> "l" [] c = "M" -> "m" [] c = "N" -> "n" [] c = "T" -> "t"
      [] c = "V" -> "v" [] c = "DD" -> "dd" [] c = "A<" -> "a<"
      [] c = "E^~" -> "e^~" [] OTHER -> c

\* a variant that keeps the diacritics
replaceDiacritic_kept(c) == c

\* the seven replace calls on one character
replaceDiacritic(c) ==
    CASE c \in ClassA -> "a"
      [] c \in ClassE -> "e"
      [] c \in ClassI -> "i"
      [] c \in ClassO -> "o"
      [] c \in ClassU -> "u"
      [] c \in ClassY -> "y"
      [] c = "dd" -> "d"
      [] OTHER -> c

RECURSIVE trimStart(_)
trimStart(str) ==
    IF str # <<>> /\ Head(str) \in WhiteSpace THEN trimStart(Tail(str)) ELSE str

RECURSIVE trimEnd(_)
trimEnd(str) ==
    IF str # <<>> /\ str[Len(str)] \in WhiteSpace
    THEN trimEnd(SubSeq(str, 1, Len(str) - 1))
    ELSE str

\* String.prototype.trim
trim(str) == trimEnd(trimStart(str))

RECURSIVE lowerAndReplace(_)
\* .toLowerCase() and the replace calls of the diacritics, character by character
lowerAndReplace(str) ==
    IF str = <<>> THEN <<>>
    ELSE <<replaceDiacritic(toLowerCaseChar(Head(str)))>> \o lowerAndReplace(Tail(str))

isAlphanumeric(c) == c \in LowerLetters \cup DigitChars

\* .replace(/[^a-z0-9]/g, "")
stripNonAlphanumeric(str) == SelectSeq(str, isAlphanumeric)

\* String.prototype.substring(0, end)
substring(str, end) == SubSeq(str, 1, IF Len(str) < end THEN Len(str) ELSE end)

RECURSIVE numberToString(_)
\* the decimal digits of a counter, as the template literal prints it
numberToString(n) ==
    LET digit(d) == CASE d = 0 -> "0" [] d = 1 -> "1" [] d = 2 -> "2" [] d = 3 -> "3"
                      [] d = 4 -> "4" [] d = 5 -> "5" [] d = 6 -> "6" [] d = 7 -> "7"
                      [] d = 8 -> "8" [] d = 9 -> "9"
    IN IF n < 10 THEN <<digit(n)>> ELSE numberToString(n \div 10) \o <<digit(n % 10)>>

\* username before the duplicate handling
usernameBase(fullName) ==
    LET username == substring(stripNonAlphanumeric(lowerAndReplace(trim(fullName))), 50)
    IN IF Len(username) = 0 THEN <<"u", "s", "e", "r">> ELSE username

\* userSchema, the username rule: 3 to 50 characters, each of a-z, 0-9 or _
userSchema_username(str) ==
    /\ Len(str) >= 3
    /\ Len(str) <= 50
    /\ \A i \in 1..Len(str) : str[i] \in LowerLetters \cup DigitChars \cup {"_"}

\* the digits Date.now() may return
NowInputs ==
    {<<"1", "7", "6", "2", "2", "5", "0", "0", "0", "0", "0", "0", "0">>,
     <<"1", "7", "6", "2", "2", "5", "0", "0", "0", "0", "0", "0", "1">>}

\* the username field before generateUsername has returned
NotGenerated == <<"?">>

\* the loop gives up: if (counter > 1000), with the limit 2
counterExceeded_early(c) == c > 2

\* the loop gives up: if (counter > 1000)
counterExceeded(c) == c > 1000

\* generateUsername(fullName, existingUsernames) is called on the form's
\* full_name and loaded usernames (an array read only through includes,
\* modelled by the set of its elements) and runs up to the while loop; a blank
\* name returns the empty string at once.  counter = 0: no call is running.
generateUsername_call ==
    /\ form_username = NotGenerated
    /\ counter = 0
    /\ IF full_name = <<>> \/ Len(trim(full_name)) = 0
       THEN /\ form_username' = <<>>
            /\ UNCHANGED <<finalUsername, counter>>
       ELSE /\ finalUsername' = usernameBase(full_name)
            /\ counter' = 1
            /\ UNCHANGED form_username
    /\ last' = NoLast
    /\ UNCHANGED <<full_name, existingUsernames, previousUsername, applyVars, employeeVars,
                   audit_logs, user, authVars, peerVars, candidates, interview_sessions, interviews,
                   decisions, candidate, showDecisionForm, selectedCandidates,
                   showCreateForm, eligibleCandidates, interviewers,
                   selectedInterviewers>>

\* one iteration of the while loop: finalUsername is taken.  The iteration
\* that raises counter above 1000 replaces finalUsername by the name with the
\* timestamp and breaks, and the function returns it.
generateUsername_while ==
    /\ form_username = NotGenerated
    /\ counter >= 1
    /\ finalUsername \in existingUsernames
    /\ LET name == usernameBase(full_name)
       IN IF counterExceeded(counter + 1)
          THEN \E now \in NowInputs :
                  /\ finalUsername' = name \o now
                  /\ form_username' = name \o now
          ELSE /\ finalUsername' = name \o numberToString(counter)
               /\ UNCHANGED form_username
    /\ counter' = counter + 1
    /\ last' = NoLast
    /\ UNCHANGED <<full_name, existingUsernames, previousUsername, applyVars, employeeVars,
                   audit_logs, user, authVars, peerVars, candidates, interview_sessions, interviews,
                   decisions, candidate, showDecisionForm, selectedCandidates,
                   showCreateForm, eligibleCandidates, interviewers,
                   selectedInterviewers>>

\* the loop ends: return finalUsername
generateUsername_return ==
    /\ form_username = NotGenerated
    /\ counter >= 1
    /\ finalUsername \notin existingUsernames
    /\ form_username' = finalUsername
    /\ last' = NoLast
    /\ UNCHANGED <<finalUsername, counter, full_name, existingUsernames,
                   previousUsername, applyVars,
                   employeeVars, audit_logs, user, authVars, peerVars, candidates, interview_sessions,
                   interviews, decisions, candidate, showDecisionForm,
                   selectedCandidates, showCreateForm, eligibleCandidates,
                   interviewers, selectedInterviewers>>

\* UserForm: the effect on full_name and existingUsernames runs again with the
\* fields as they were (the name is retyped), and calls generateUsername with
\* the same arguments; what the earlier call returned is kept for comparison
UserForm_generateAgain ==
    /\ form_username # NotGenerated
    /\ previousUsername = NotGenerated
    /\ previousUsername' = form_username
    /\ form_username' = NotGenerated
    /\ finalUsername' = <<>>
    /\ counter' = 0
    /\ last' = NoLast
    /\ UNCHANGED <<full_name, existingUsernames, applyVars, employeeVars,
                   audit_logs, user, authVars, peerVars, candidates, interview_sessions, interviews,
                   decisions, candidate, showDecisionForm, selectedCandidates,
                   showCreateForm, eligibleCandidates, interviewers,
                   selectedInterviewers>>

----------------------------------------------------------------------------
(* Employee records: DatabaseService, EmployeeProfile (main.tsx) and        *)
(* EmployeeDetailModal (components/Modals/EmployeeDetailModal.tsx)           *)

\* the employees who open their own profile page and whom HR lists
ProfileUsers == {"emp1", "emp2"}

\* useState<Employee | null>(null); user.employee of a user without a row
NoEmployee == 0

\* useState<UserWithEmployee | null>(null)
NoViewing == [id |-> NULL, employee |-> NoEmployee]

\* a national_id of twelve times the digit d
twelve(d) == [i \in 1..12 |-> d]

\* what is typed into the national_id field
NationalIdInputs == {twelve("1"), twelve("2"), <<"1", "2", "3">>, <<>>}

\* employeeSchema: national_id matches /^\d{12}$/
employeeSchema(data) ==
    /\ Len(data.national_id) = 12
    /\ \A i \in 1..Len(data.national_id) : data.national_id[i] \in DigitChars

\* the constraints of table employees on a row written at id: the primary key
\* (the index) and the reference to users; national_id is text DEFAULT '' with
\* no UNIQUE constraint and no unique index, so every national_id is accepted
employees_accepts(tbl, id, row) ==
    row.user_id \in DOMAIN users

\* createEmployee(employeeData) answers a row and does not throw
createEmployee_ok(tbl, employeeData, ok) ==
    ok /\ employees_accepts(tbl, Len(tbl) + 1, employeeData)

\* createEmployee(employeeData): INSERT one row
createEmployee(tbl, employeeData, ok) ==
    IF createEmployee_ok(tbl, employeeData, ok) THEN Append(tbl, employeeData) ELSE tbl

\* updateEmployee(id, updates) answers a row and does not throw: .single()
\* needs the row to exist
updateEmployee_ok(tbl, id, updates, ok) ==
    /\ ok
    /\ id \in 1..Len(tbl)
    /\ employees_accepts(tbl, id, [tbl[id] EXCEPT !.national_id = updates.national_id])

\* updateEmployee(id, updates): UPDATE ... WHERE id = id
updateEmployee(tbl, id, updates, ok) ==
    IF updateEmployee_ok(tbl, id, updates, ok)
    THEN [tbl EXCEPT ![id].national_id = updates.national_id] ELSE tbl

\* getEmployeeByUserId(userId): SELECT ... WHERE user_id = userId, .single();
\* no row and several rows both answer PGRST116, which the method turns into null
getEmployeeByUserId(tbl, userId) ==
    LET found == {i \in 1..Len(tbl) : tbl[i].user_id = userId}
    IN  IF Cardinality(found) = 1 THEN CHOOSE i \in found : TRUE ELSE NoEmployee

\* EmployeeProfile.loadEmployeeData of the employee u; ok = FALSE: the store
\* answers with an error, which is logged
loadEmployeeData(u, ok) ==
    /\ employee' = [employee EXCEPT ![u] =
                        IF ok THEN getEmployeeByUserId(employees, u) ELSE @]
    /\ last' = LastBy(u, "loadEmployeeData", IF ok THEN "ok" ELSE "StoreError", NULL, NULL)
    /\ UNCHANGED <<employees, listedUsers, viewingEmployee, applyVars, userFormVars,
                   audit_logs, user, authVars, peerVars, candidates, interview_sessions, interviews,
                   decisions, candidate, showDecisionForm, selectedCandidates,
                   showCreateForm, eligibleCandidates, interviewers,
                   selectedInterviewers>>

LoadEmployeeData == \E u \in ProfileUsers, ok \in BOOLEAN : loadEmployeeData(u, ok)

\* EmployeeProfile.onSubmit(data) of the employee u, with the loadEmployeeData
\* it ends with: updateEmployee of the loaded row, or createEmployee when none
\* is loaded
EmployeeProfile_onSubmit(u, data, ok, okLoad) ==
    /\ employeeSchema(data)
    /\ LET written == IF employee[u] # NoEmployee
                      THEN updateEmployee(employees, employee[u], data, ok)
                      ELSE createEmployee(employees,
                               [user_id |-> u, national_id |-> data.national_id], ok)
           saved == IF employee[u] # NoEmployee
                    THEN updateEmployee_ok(employees, employee[u], data, ok)
                    ELSE createEmployee_ok(employees,
                             [user_id |-> u, national_id |-> data.national_id], ok)
       IN  /\ employees' = written
           /\ employee' = [employee EXCEPT ![u] =
                  IF ~saved THEN @
                  ELSE IF okLoad THEN getEmployeeByUserId(written, u)
                  ELSE IF employee[u] # NoEmployee THEN @
                  ELSE Len(written)]
           /\ last' = LastBy(u, IF employee[u] # NoEmployee THEN "updateEmployee"
                                ELSE "createEmployee",
                             IF saved THEN "ok" ELSE "error", NULL, data.national_id)
    /\ UNCHANGED <<listedUsers, viewingEmployee, applyVars, userFormVars,
                   audit_logs, user, authVars, peerVars, candidates, interview_sessions, interviews,
                   decisions, candidate, showDecisionForm, selectedCandidates,
                   showCreateForm, eligibleCandidates, interviewers,
                   selectedInterviewers>>

\* a save that leaves at most cap rows in employees
SaveOwnProfile(cap) ==
    \E u \in ProfileUsers, id \in NationalIdInputs, ok \in BOOLEAN, okLoad \in BOOLEAN :
        /\ employee[u] # NoEmployee \/ Len(employees) < cap
        /\ EmployeeProfile_onSubmit(u, [national_id |-> id], ok, okLoad)

\* getUsers(): every user with employee:employees(*), read as UserWithEmployee
\* declares it: the user's row, one of them when there are several, or none
embeddedEmployees(tbl, u) ==
    LET found == {i \in 1..Len(tbl) : tbl[i].user_id = u}
    IN  IF found = {} THEN {NoEmployee} ELSE found

\* UserList.loadUsers
loadUsers ==
    /\ \E answer \in [ProfileUsers -> 0..Len(employees)] :
        /\ \A u \in ProfileUsers : answer[u] \in embeddedEmployees(employees, u)
        /\ listedUsers' = answer
    /\ last' = Last("loadUsers", "ok", NULL, NULL)
    /\ UNCHANGED <<employees, employee, viewingEmployee, applyVars, userFormVars,
                   audit_logs, user, authVars, peerVars, candidates, interview_sessions, interviews,
                   decisions, candidate, showDecisionForm, selectedCandidates,
                   showCreateForm, eligibleCandidates, interviewers,
                   selectedInterviewers>>

\* UserList: the employee button of a row, setViewingEmployee(user)
setViewingEmployee(u) ==
    /\ viewingEmployee = NoViewing
    /\ viewingEmployee' = [id |-> u, employee |-> listedUsers[u]]
    /\ last' = Last("setViewingEmployee", "ok", NULL, NULL)
    /\ UNCHANGED <<employees, employee, listedUsers, applyVars, userFormVars,
                   audit_logs, user, authVars, peerVars, candidates, interview_sessions, interviews,
                   decisions, candidate, showDecisionForm, selectedCandidates,
                   showCreateForm, eligibleCandidates, interviewers,
                   selectedInterviewers>>

ViewEmployee == \E u \in ProfileUsers : setViewingEmployee(u)

\* EmployeeDetailModal onClose
EmployeeDetailModal_onClose ==
    /\ viewingEmployee # NoViewing
    /\ viewingEmployee' = NoViewing
    /\ last' = Last("onClose", "ok", NULL, NULL)
    /\ UNCHANGED <<employees, employee, listedUsers, applyVars, userFormVars,
                   audit_logs, user, authVars, peerVars, candidates, interview_sessions, interviews,
                   decisions, candidate, showDecisionForm, selectedCandidates,
                   showCreateForm, eligibleCandidates, interviewers,
                   selectedInterviewers>>

\* EmployeeDetailModal.onSubmit(data): updateEmployee of user.employee, or
\* createEmployee when the listed user has none; then onUpdate, which is
\* loadUsers (okLoad = FALSE: it fails and the list stays) and closes the modal
EmployeeDetailModal_onSubmit(data, ok, okLoad) ==
    /\ viewingEmployee # NoViewing
    /\ employeeSchema(data)
    /\ LET u == viewingEmployee.id
           row == viewingEmployee.employee
           written == IF row # NoEmployee
                      THEN updateEmployee(employees, row, data, ok)
                      ELSE createEmployee(employees,
                               [user_id |-> u, national_id |-> data.national_id], ok)
           saved == IF row # NoEmployee
                    THEN updateEmployee_ok(employees, row, data, ok)
                    ELSE createEmployee_ok(employees,
                             [user_id |-> u, national_id |-> data.national_id], ok)
       IN  /\ employees' = written
           /\ viewingEmployee' = IF saved THEN NoViewing ELSE viewingEmployee
           /\ IF saved /\ okLoad
              THEN \E answer \in [ProfileUsers -> 0..Len(written)] :
                      /\ \A v \in ProfileUsers :
                             answer[v] \in embeddedEmployees(written, v)
                      /\ listedUsers' = answer
              ELSE listedUsers' = listedUsers
           /\ last' = Last(IF row # NoEmployee THEN "updateEmployee" ELSE "createEmployee",
                           IF saved THEN "ok" ELSE "error", NULL, data.national_id)
    /\ UNCHANGED <<employee, applyVars, userFormVars,
                   audit_logs, user, authVars, peerVars, candidates, interview_sessions, interviews,
                   decisions, candidate, showDecisionForm, selectedCandidates,
                   showCreateForm, eligibleCandidates, interviewers,
                   selectedInterviewers>>

\* a save that leaves at most cap rows in employees
SaveFromModal(cap) ==
    \E id \in NationalIdInputs, ok \in BOOLEAN, okLoad \in BOOLEAN :
        /\ viewingEmployee.employee # NoEmployee \/ Len(employees) < cap
        /\ EmployeeDetailModal_onSubmit([national_id |-> id], ok, okLoad)

----------------------------------------------------------------------------
(* AuthContext (contexts/AuthContext.tsx), ProtectedRoute and the routes of *)
(* App.tsx                                                                   *)

UserRole == {"ADMIN", "HR", "EMPLOYEE"}

\* DEMO_USERS, by the id login gives them
DEMO_USERS ==
    [u \in {"demo-admin", "demo-hr"} |->
        IF u = "demo-admin" THEN [role |-> "ADMIN"] ELSE [role |-> "HR"]]

\* what localStorage may hold under the key user when the page loads: nothing,
\* the user a login has stored, a user object without a role, a user object
\* whose role is no UserRole, text that JSON.parse rejects
NotJson == [id |-> "not json", role |-> NULL]

\* localStorage.getItem answers null
NoStoredUser == [id |-> NULL, role |-> NULL]

StoredUsers ==
    {NoStoredUser, NotJson}
      \cup {[id |-> u, role |-> DEMO_USERS[u].role] : u \in DOMAIN DEMO_USERS}
      \cup {[id |-> u, role |-> users[u].role] : u \in {"hr1", "emp1"}}
      \cup {[id |-> "emp1", role |-> NULL], [id |-> "emp1", role |-> "GUEST"]}

\* a JavaScript value is truthy
truthy(v) == v # NULL

\* the protected routes of AppRoutes: allowedRoles and the page
ProtectedRoutes ==
    [p \in {"/dashboard", "/candidates", "/candidates/:id", "/interviews", "/users",
            "/employee", "/employee/profile", "/employee/interviews"} |->
        CASE p = "/dashboard" -> [allowedRoles |-> {"ADMIN"}, page |-> "Dashboard"]
          [] p = "/candidates" ->
                [allowedRoles |-> {"ADMIN", "HR"}, page |-> "CandidateList"]
          [] p = "/candidates/:id" ->
                [allowedRoles |-> {"ADMIN", "HR"}, page |-> "CandidateDetail"]
          [] p = "/interviews" ->
                [allowedRoles |-> {"ADMIN", "HR"}, page |-> "InterviewList"]
          [] p = "/users" -> [allowedRoles |-> {"ADMIN", "HR"}, page |-> "UserList"]
          [] p = "/employee" -> [allowedRoles |-> {"EMPLOYEE"}, page |-> "EmployeeProfile"]
          [] p = "/employee/profile" ->
                [allowedRoles |-> {"EMPLOYEE"}, page |-> "EmployeeProfile"]
          [] p = "/employee/interviews" ->
                [allowedRoles |-> {"EMPLOYEE"}, page |-> "InterviewAssignments"]]

Pages == {ProtectedRoutes[p].page : p \in DOMAIN ProtectedRoutes}

\* the paths typed or linked to
Paths == DOMAIN ProtectedRoutes \cup {"/login", "/unauthorized", "/apply"}

\* allowedRoles.length > 0 && role && !allowedRoles.includes(role)
roleDenied(allowedRoles, r) ==
    Cardinality(allowedRoles) > 0 /\ truthy(r) /\ r \notin allowedRoles

\* ProtectedRoute around the page of p, for the context values u, r, l: what
\* the browser shows, and where, once the Navigate elements have acted
ProtectedRoute(p, u, r, l) ==
    IF l THEN [path |-> p, element |-> "spinner"]
    ELSE IF ~truthy(u) THEN [path |-> "/login", element |-> "LoginForm"]
    ELSE IF roleDenied(ProtectedRoutes[p].allowedRoles, r)
         THEN [path |-> "/unauthorized", element |-> "Unauthorized"]
    ELSE [path |-> p, element |-> ProtectedRoutes[p].page]

\* AppRoutes: the element of the route of p
AppRoutes(p, u, r, l) ==
    CASE p = "/login" ->
            IF truthy(u)
            THEN ProtectedRoute(IF r = "ADMIN" THEN "/dashboard"
                                ELSE IF r = "HR" THEN "/candidates" ELSE "/employee",
                                u, r, l)
            ELSE [path |-> "/login", element |-> "LoginForm"]
      [] p = "/apply" -> [path |-> p, element |-> "CandidateApplicationForm"]
      [] p = "/unauthorized" -> [path |-> p, element |-> "Unauthorized"]
      [] OTHER -> ProtectedRoute(p, u, r, l)

\* what the browser shows
rendered == AppRoutes(path, user, role, loading)

\* the effect of AuthProvider on mount: restore the stored user
AuthProvider_restore ==
    /\ loading
    /\ IF storedUser # NoStoredUser
       THEN IF storedUser # NotJson
            THEN /\ user' = storedUser.id
                 /\ role' = storedUser.role
                 /\ UNCHANGED storedUser
            ELSE /\ storedUser' = NoStoredUser
                 /\ UNCHANGED <<user, role>>
       ELSE UNCHANGED <<user, role, storedUser>>
    /\ loading' = FALSE
    /\ path' = AppRoutes(path, user', role', FALSE).path
    /\ last' = NoLast
    /\ UNCHANGED <<applyVars, employeeVars, userFormVars, peerVars, audit_logs, candidates,
                   interview_sessions, interviews, decisions, candidate,
                   showDecisionForm, selectedCandidates, showCreateForm,
                   eligibleCandidates, interviewers, selectedInterviewers>>

\* login(email, password) of the account u with the password right or wrong;
\* a users row is found only when ACTIVE, and its login is audited
login(u, isValidPassword, okAudit) ==
    /\ ~loading
    /\ path = "/login"
    /\ IF isValidPassword /\ (u \in DOMAIN DEMO_USERS \/ users[u].status = "ACTIVE")
       THEN LET r == IF u \in DOMAIN DEMO_USERS THEN DEMO_USERS[u].role
                     ELSE users[u].role
            IN  /\ user' = u
                /\ role' = r
                /\ storedUser' = [id |-> u, role |-> r]
                /\ audit_logs' =
                      IF u \in DOMAIN DEMO_USERS THEN audit_logs
                      ELSE createAuditLog(audit_logs,
                               [action |-> "LOGIN", target_id |-> u,
                                payload_json |-> [actor |-> u]], okAudit)
                /\ path' = AppRoutes(path, u, r, FALSE).path
       ELSE UNCHANGED <<user, role, storedUser, audit_logs, path>>
    /\ UNCHANGED loading
    /\ last' = NoLast
    /\ UNCHANGED <<applyVars, employeeVars, userFormVars, peerVars, candidates,
                   interview_sessions, interviews, decisions, candidate,
                   showDecisionForm, selectedCandidates, showCreateForm,
                   eligibleCandidates, interviewers, selectedInterviewers>>

\* the login form, with at most cap rows written to audit_logs
Login(cap) ==
    \E u \in DOMAIN DEMO_USERS \cup DOMAIN users, isValidPassword \in BOOLEAN,
       okAudit \in BOOLEAN :
        /\ okAudit => Len(audit_logs) < cap
        /\ login(u, isValidPassword, okAudit)

\* logout(): the audit row, then the user, the role and the stored user are
\* cleared
logout(okAudit) ==
    /\ ~loading
    /\ truthy(user)
    /\ audit_logs' = createAuditLog(audit_logs,
                         [action |-> "LOGOUT", target_id |-> user,
                          payload_json |-> [actor |-> user]], okAudit)
    /\ user' = NULL
    /\ role' = NULL
    /\ storedUser' = NoStoredUser
    /\ path' = AppRoutes(path, NULL, NULL, FALSE).path
    /\ UNCHANGED loading
    /\ last' = NoLast
    /\ UNCHANGED <<applyVars, employeeVars, userFormVars, peerVars, candidates,
                   interview_sessions, interviews, decisions, candidate,
                   showDecisionForm, selectedCandidates, showCreateForm,
                   eligibleCandidates, interviewers, selectedInterviewers>>

\* the logout button, with at most cap rows written to audit_logs
Logout(cap) ==
    \E okAudit \in BOOLEAN :
        /\ okAudit => Len(audit_logs) < cap
        /\ logout(okAudit)

\* the browser goes to the path p: a link, or the address bar
navigate(p) ==
    /\ path' = AppRoutes(p, user, role, loading).path
    /\ path' # path
    /\ last' = NoLast
    /\ UNCHANGED <<user, role, loading, storedUser, applyVars, employeeVars,
                   userFormVars, peerVars, audit_logs, candidates, interview_sessions,
                   interviews, decisions, candidate, showDecisionForm,
                   selectedCandidates, showCreateForm, eligibleCandidates,
                   interviewers, selectedInterviewers>>

Navigate == \E p \in Paths : navigate(p)

----------------------------------------------------------------------------
(* The system *)

\* the email and the position of the candidates that have applied before
seedKey(c) == [email |-> c \o "@mail", applied_position_id |-> "p1"]

\* the tables and the pages once the candidates in applied have applied and
\* reached status
InitPages(applied, status) ==
    /\ candidates = [c \in applied |-> status]
    /\ peerCandidate = NoCandidate
    /\ peerShowDecisionForm = FALSE
    /\ interview_sessions = <<>>
    /\ interviews = EmptyBag
    /\ decisions = <<>>
    /\ candidate = NoCandidate
    /\ showDecisionForm = FALSE
    /\ selectedCandidates = <<>>
    /\ showCreateForm = FALSE
    /\ eligibleCandidates = {}
    /\ interviewers = {}
    /\ selectedInterviewers = <<>>
    /\ employees = <<>>
    /\ employee = [u \in ProfileUsers |-> NoEmployee]
    /\ listedUsers = [u \in ProfileUsers |-> NoEmployee]
    /\ viewingEmployee = NoViewing
    /\ audit_logs = <<>>
    /\ candidates_key = [c \in applied |-> seedKey(c)]
    /\ isSubmitted = [t \in Tabs |-> FALSE]
    /\ submitting = [t \in Tabs |-> NoRequest]
    /\ last = NoLast

\* the same with HR signed in
InitStore(applied, status) ==
    /\ user = "hr1"
    /\ role = users["hr1"].role
    /\ loading = FALSE
    /\ storedUser = [id |-> "hr1", role |-> users["hr1"].role]
    /\ path = "/candidates"
    /\ InitPages(applied, status)

\* the user creation form closed
InitUserForm ==
    /\ full_name = <<>>
    /\ existingUsernames = {}
    /\ form_username = NotGenerated
    /\ finalUsername = <<>>
    /\ counter = 0
    /\ previousUsername = NotGenerated

\* the same with the user creation form closed
InitWith(applied, status) ==
    /\ InitStore(applied, status)
    /\ InitUserForm

\* the handlers of CandidateDetail and DecisionForm
DetailNext ==
    \/ \E id \in DOMAIN candidates : loadCandidate(id)
    \/ ClickStatusAction
    \/ ClickDecisionAction
    \/ (Len(decisions) < MaxDecisions /\ RecordDecision)
    \/ DecisionForm_onCancel

\* the handlers of CandidateList
ListNext ==
    \/ handleSelectAll
    \/ \E id \in DOMAIN candidates : handleSelectCandidate(id)
    \/ handleBulkApprove
    \/ handleBulkReject

\* the handlers of InterviewSessionForm, for at most cap sessions
FormNext(cap, answers) ==
    \/ (Len(interview_sessions) < cap /\ OpenCreateForm)
    \/ InterviewSessionForm_onCancel
    \/ \E u \in DOMAIN users : handleInterviewerToggle(u)
    \/ (Len(interview_sessions) < cap /\ CreateSession(answers))

(* Candidate lifecycle: two candidates, CandidateDetail with its decision   *)
(* form and CandidateList                                                   *)
Init == InitWith({"c1", "c2"}, "SUBMITTED")

Next ==
    \/ DetailNext
    \/ ListNext

Spec == Init /\ [][Next]_vars

(* Interview sessions: one candidate, approved or rejected from              *)
(* CandidateList while the session form is open or closed                   *)
InitSession == InitWith({"c1"}, "SUBMITTED")

NextSession ==
    \/ ListNext
    \/ FormNext(MaxSessions, BOOLEAN)

SpecSession == InitSession /\ [][NextSession]_vars

(* Evaluations: one approved candidate, sessions whose writes the store      *)
(* accepts, and the interviewers' evaluation forms                          *)
InitProgress == InitWith({"c1"}, "APPROVED")

NextProgress ==
    \/ FormNext(MaxEvaluatedSessions, {TRUE})
    \/ RecordEvaluation

SpecProgress == InitProgress /\ [][NextProgress]_vars

(* Evaluations through the form and through direct calls of                 *)
(* DatabaseService.updateInterview: one candidate in INTERVIEW with one      *)
(* session for the interviewers emp1 and emp2                                *)
InitEvaluate ==
    /\ user = "hr1"
    /\ role = users["hr1"].role
    /\ loading = FALSE
    /\ storedUser = [id |-> "hr1", role |-> users["hr1"].role]
    /\ path = "/candidates"
    /\ candidates = [c \in {"c1"} |-> "INTERVIEW"]
    /\ peerCandidate = NoCandidate
    /\ peerShowDecisionForm = FALSE
    /\ interview_sessions = <<[id |-> 1, candidate_id |-> "c1", created_by |-> "hr1",
                               status |-> "SCHEDULED"]>>
    /\ interviews = SetToBag({newInterview("c1", "emp1", 1), newInterview("c1", "emp2", 1)})
    /\ decisions = <<>>
    /\ candidate = NoCandidate
    /\ showDecisionForm = FALSE
    /\ selectedCandidates = <<>>
    /\ showCreateForm = FALSE
    /\ eligibleCandidates = {}
    /\ interviewers = {}
    /\ selectedInterviewers = <<>>
    /\ employees = <<>>
    /\ employee = [u \in ProfileUsers |-> NoEmployee]
    /\ listedUsers = [u \in ProfileUsers |-> NoEmployee]
    /\ viewingEmployee = NoViewing
    /\ audit_logs = <<>>
    /\ candidates_key = [c \in {"c1"} |-> seedKey(c)]
    /\ isSubmitted = [t \in Tabs |-> FALSE]
    /\ submitting = [t \in Tabs |-> NoRequest]
    /\ full_name = <<>>
    /\ existingUsernames = {}
    /\ form_username = NotGenerated
    /\ finalUsername = <<>>
    /\ counter = 0
    /\ previousUsername = NotGenerated
    /\ last = NoLast

NextEvaluate ==
    \/ RecordEvaluation
    \/ DirectUpdateInterview

SpecEvaluate == InitEvaluate /\ [][NextEvaluate]_vars

(* Usernames: generateUsername applied to the names and the username lists   *)
(* below                                                                     *)

\* the characters typed into full_name
NameChars == {"a", "A", "a<", " ", "-"}

\* every name of at most MaxNameLen of these characters
TypedNames == UNION {[1..n -> NameChars] : n \in 0..MaxNameLen}

\* usernames the users table may hold next to them
ExistingPool == {<<"a">>, <<"a", "1">>, <<"A">>, <<"u", "s", "e", "r">>, <<>>}

NguyenVanAn == <<"N", "g", "u", "y", "e^~", "n", " ", "V", "a%", "n", " ", "A", "n">>

LeHoangCuong ==
    <<"L", "e^", " ", "H", "o", "a<", "n", "g", " ", "C", "u+", "o+<", "n", "g">>

\* a name of n letters
LongName(n) == [i \in 1..n |-> "a"]

ExampleNames == {NguyenVanAn, LeHoangCuong, LongName(50), LongName(51)}

nguyenvanan == <<"n", "g", "u", "y", "e", "n", "v", "a", "n", "a", "n">>

lehoangcuong == <<"l", "e", "h", "o", "a", "n", "g", "c", "u", "o", "n", "g">>

\* a name and its first n numbered variants
Taken(name, n) == {name} \cup {name \o numberToString(k) : k \in 1..n}

ExampleExisting ==
    {{}, {nguyenvanan}, Taken(lehoangcuong, 1), {LongName(50)},
     Taken(lehoangcuong, 998), Taken(lehoangcuong, 999),
     Taken(lehoangcuong, 999)
        \cup {lehoangcuong \o now : now \in NowInputs}}

InitUsername ==
    /\ InitStore({}, "SUBMITTED")
    /\ \/ full_name \in TypedNames /\ existingUsernames \in SUBSET ExistingPool
       \/ full_name \in ExampleNames /\ existingUsernames \in ExampleExisting
    /\ form_username = NotGenerated
    /\ finalUsername = <<>>
    /\ counter = 0
    /\ previousUsername = NotGenerated

NextUsername ==
    \/ generateUsername_call
    \/ generateUsername_while
    \/ generateUsername_return

SpecUsername == InitUsername /\ [][NextUsername]_vars

(* Usernames of names whose numbered variants are taken, each call running  *)
(* to its end: the loop is synchronous code                                 *)
InitUsernameFair ==
    /\ InitStore({}, "SUBMITTED")
    /\ full_name \in {<<"a">>, <<"A">>, <<>>, <<" ">>, <<"-">>, NguyenVanAn, LongName(51)}
    /\ existingUsernames \in
          {{}, {<<"u", "s", "e", "r">>}, {<<"A">>}, {<<"a">>},
           Taken(<<"a">>, 998), Taken(<<"a">>, 999),
           Taken(<<"a">>, 999) \cup {<<"a">> \o now : now \in NowInputs}}
    /\ form_username = NotGenerated
    /\ finalUsername = <<>>
    /\ counter = 0
    /\ previousUsername = NotGenerated

SpecUsernameFair ==
    InitUsernameFair /\ [][NextUsername]_vars /\ WF_vars(NextUsername)

(* Usernames generated twice from the same fields                            *)
NextUsernameTwice ==
    \/ NextUsername
    \/ UserForm_generateAgain

SpecUsernameTwice == InitUsernameFair /\ [][NextUsernameTwice]_vars

(* Applications: the public form in two browser tabs                        *)
InitApply == InitWith({}, "SUBMITTED")

NextApply ==
    \/ (Cardinality(DOMAIN candidates) < MaxCandidates /\ SubmitApplication)
    \/ AuditApplication
    \/ SubmitAnother

SpecApply == InitApply /\ [][NextApply]_vars

(* Employee records: the employees emp1 and emp2 on their profile pages and *)
(* HR on the user list with its employee modal                              *)
InitEmployee == InitWith({}, "SUBMITTED")

NextEmployee ==
    \/ LoadEmployeeData
    \/ SaveOwnProfile(MaxEmployees)
    \/ loadUsers
    \/ ViewEmployee
    \/ EmployeeDetailModal_onClose
    \/ SaveFromModal(MaxEmployees)

SpecEmployee == InitEmployee /\ [][NextEmployee]_vars

(* Evaluations recorded again and again: one candidate in INTERVIEW with    *)
(* one session for the interviewers emp1 and emp2                            *)
SpecReevaluate == InitEvaluate /\ [][RecordEvaluationAgain]_vars

(* Sessions to their end: one approved candidate, the session form, the     *)
(* interviewers' evaluation forms, and CandidateDetail with its decision     *)
(* form                                                                      *)
InitClosing == InitWith({"c1"}, "APPROVED")

NextClosing ==
    \/ FormNext(MaxEvaluatedSessions, {TRUE})
    \/ RecordEvaluation
    \/ DetailNext

SpecClosing == InitClosing /\ [][NextClosing]_vars

(* Two actors: one candidate, CandidateDetail with its decision form open   *)
(* in the browser of HR and in the browser of the demo administrator        *)
InitPeer == InitWith({"c1"}, "SUBMITTED")

NextPeer ==
    \/ \E id \in DOMAIN candidates : loadCandidate(id)
    \/ ClickStatusAction
    \/ ClickDecisionAction
    \/ (Len(decisions) < MaxPeerDecisions /\ RecordDecision)
    \/ DecisionForm_onCancel
    \/ \E id \in DOMAIN candidates : peer_loadCandidate(id)
    \/ peer_ClickStatusAction
    \/ peer_ClickDecisionAction
    \/ (Len(decisions) < MaxPeerDecisions /\ peer_RecordDecision)
    \/ peer_DecisionForm_onCancel

SpecPeer == InitPeer /\ [][NextPeer]_vars

(* Routes: a browser that opens the application at any path, with anything  *)
(* in its localStorage                                                       *)
InitRoute ==
    /\ user = NULL
    /\ role = NULL
    /\ loading = TRUE
    /\ storedUser \in StoredUsers
    /\ path \in Paths
    /\ InitPages({}, "SUBMITTED")
    /\ InitUserForm

NextRoute ==
    \/ AuthProvider_restore
    \/ Login(MaxAuthLogs)
    \/ Logout(MaxAuthLogs)
    \/ Navigate

SpecRoute == InitRoute /\ [][NextRoute]_vars

----------------------------------------------------------------------------
(* Properties *)

\* the transition table of the candidate lifecycle
TransitionTable ==
    {<<"SUBMITTED", "APPROVED">>, <<"SUBMITTED", "REJECTED">>,
     <<"APPROVED", "INTERVIEW">>,
     <<"INTERVIEW", "OFFERED">>, <<"INTERVIEW", "NOT_HIRED">>,
     <<"OFFERED", "HIRED">>, <<"OFFERED", "NOT_HIRED">>}

\* the targets a direct status change may ask for; INTERVIEW is left through
\* the decision form only
DirectTargets(s) ==
    IF s = "INTERVIEW" THEN {} ELSE {t \in CandidateStatus : <<s, t>> \in TransitionTable}

Terminal == {"REJECTED", "NOT_HIRED", "HIRED"}

\* the candidates the handler of this step asked a status change for
Requested ==
    CASE last'.op = "handleBulk" -> SeqToSet(selectedCandidates)
      [] last'.op \in {"updateCandidateStatus", "recordDecision"} -> {candidate.id}
      [] last'.op = "createSession" /\ selectedInterviewers # <<>> -> {last'.cand}
      [] OTHER -> {}

\* C1: a status change request for a pair (s, t) that is not in the transition
\* table fails with InvalidTransition and leaves the stored status equal to s.
C1_IllegalTransitionRejected ==
    [][\A c \in Requested :
          <<candidates[c], last'.to>> \notin TransitionTable
             => /\ last'.outcome = "InvalidTransition"
                /\ candidates'[c] = candidates[c]]_vars

\* CandidateDetail shows the status the store holds for its candidate
PageIsCurrent ==
    candidate # NoCandidate /\ candidate.status = candidates[candidate.id]

C2_Offered ==
    PageIsCurrent =>
        LET s == candidates[candidate.id]
            acts == getAvailableActions(candidate)
        IN /\ {a.status : a \in {x \in acts : x.kind = "updateCandidateStatus"}}
                 = DirectTargets(s)
           /\ (\E a \in acts : a.kind = "setShowDecisionForm") <=> s = "INTERVIEW"
           /\ s \in Terminal => acts = {}

C2_Applied ==
    (last'.op \in {"updateCandidateStatus", "recordDecision"} /\ PageIsCurrent) =>
        LET c == candidate.id
        IN /\ <<candidates[c], last'.to>> \in TransitionTable
           /\ last'.op = "recordDecision" <=> candidates[c] = "INTERVIEW"
           /\ last'.outcome \in {"ok", "StoreError"}
           /\ last'.outcome = "ok" => candidates'[c] = last'.to
           /\ last'.outcome = "StoreError" => candidates'[c] = candidates[c]

\* C2: while CandidateDetail shows the stored status s of its candidate, the
\* status buttons it offers are exactly the table's targets of s (for INTERVIEW
\* the decision form, which writes OFFERED or NOT_HIRED), none for REJECTED,
\* HIRED and NOT_HIRED; the offered action is never rejected as a transition,
\* and when the store accepts the write the stored status is the target.
C2_OfferedActionsFollowTable == [][C2_Offered' /\ C2_Applied]_vars

\* C2 witness: a candidate confirmed as hired from the page, after the
\* decision form moved it from INTERVIEW to OFFERED
C2_Witness ==
    /\ last.op = "updateCandidateStatus"
    /\ last.outcome = "ok"
    /\ last.to = "HIRED"
    /\ candidates[last.cand] = "HIRED"
    /\ \E i \in 1..Len(decisions) :
          decisions[i].candidate_id = last.cand /\ decisions[i].decision = "HIRE"

\* C3: REJECTED, NOT_HIRED and HIRED are terminal: no operation changes the
\* status of a candidate that has one of them.
C3_TerminalIsFinal ==
    [][\A c \in DOMAIN candidates :
          candidates[c] \in Terminal => candidates'[c] = candidates[c]]_vars

\* C4: a createSession in which a step fails leaves no new session row, no new
\* interview row and the candidate's status as it was.
C4_CreateSessionAllOrNothing ==
    [][(last'.op = "createSession" /\ last'.outcome # "ok")
          => /\ interview_sessions' = interview_sessions
             /\ interviews' = interviews
             /\ candidates' = candidates]_vars

NoDuplicates(s) == \A i, j \in 1..Len(s) : s[i] = s[j] => i = j

RECURSIVE SumCopies(_, _)
SumCopies(S, B) ==
    IF S = {} THEN 0
    ELSE LET x == CHOOSE y \in S : TRUE IN B[x] + SumCopies(S \ {x}, B)

\* the number of rows of tbl linked to session sid whose result is in results
RowCount(tbl, sid, results) ==
    SumCopies({r \in DOMAIN tbl : r.interview_session_id = sid /\ r.result \in results},
              tbl)

C5_Created ==
    (last'.op = "createSession" /\ last'.outcome = "ok") =>
        LET k == Len(selectedInterviewers)
            sid == Len(interview_sessions')
        IN /\ k >= 1
           /\ Len(interview_sessions') = Len(interview_sessions) + 1
           /\ interview_sessions'[sid].id = sid
           /\ interview_sessions'[sid].status = "SCHEDULED"
           /\ interview_sessions'[sid].candidate_id = last'.cand
           /\ RowCount(interviews, sid, InterviewResult) = 0
           /\ RowCount(interviews', sid, InterviewResult) = k
           /\ BagCardinality(interviews') = BagCardinality(interviews) + k
           /\ \A u \in SeqToSet(selectedInterviewers) :
                 CopiesIn([candidate_id |-> last'.cand, interviewer_id |-> u,
                           interview_session_id |-> sid, tech_notes |-> "",
                           soft_notes |-> "", result |-> "PENDING"], interviews') = 1
           /\ getSessionProgress(getInterviewSessionsWithDetails'[sid])
                 = [total |-> k, completed |-> 0, passed |-> 0, percentage |-> 0]

\* C5: the selection never holds an interviewer twice, and a successful
\* createSession with k selected interviewers adds one SCHEDULED session and k
\* interview rows linked to it, one per selected interviewer, each PENDING with
\* empty notes; the progress of the new session is 0 of k, 0 passed, 0 percent.
C5_OneInterviewPerInterviewer ==
    [][NoDuplicates(selectedInterviewers') /\ C5_Created]_vars

\* C5 witness: a session created for three interviewers
C5_Witness ==
    /\ last.op = "createSession"
    /\ last.outcome = "ok"
    /\ Len(interview_sessions) >= 1
    /\ RowCount(interviews, Len(interview_sessions), {"PENDING"}) = 3

\* C6: createSession for a candidate whose stored status is neither APPROVED
\* nor INTERVIEW fails, creates no session and no interview and does not
\* change the candidate's status.
C6_OnlyEligibleCandidates ==
    [][(/\ last'.op = "createSession"
        /\ selectedInterviewers # <<>>
        /\ candidates[last'.cand] \notin {"APPROVED", "INTERVIEW"})
          => /\ last'.outcome # "ok"
             /\ interview_sessions' = interview_sessions
             /\ interviews' = interviews
             /\ candidates' = candidates]_vars

\* C7: createSession with an empty selection fails with the
\* no-interviewer-selected error and writes nothing.
C7_EmptySelectionRejected ==
    [][(last'.op = "createSession" /\ selectedInterviewers = <<>>)
          => /\ last'.outcome = "NoInterviewerSelected"
             /\ interview_sessions' = interview_sessions
             /\ interviews' = interviews
             /\ candidates' = candidates
             /\ decisions' = decisions]_vars

\* C7 witness: an empty selection submitted for a candidate that was rejected
\* after the form had loaded it
C7_Witness ==
    /\ last.op = "createSession"
    /\ last.outcome = "NoInterviewerSelected"
    /\ selectedInterviewers = <<>>
    /\ candidates[last.cand] = "REJECTED"

\* C8: after a successful createSession for candidate c the stored status of c
\* is INTERVIEW, also when it was INTERVIEW before.
C8_StatusInterviewAfterSession ==
    (last.op = "createSession" /\ last.outcome = "ok")
        => candidates[last.cand] = "INTERVIEW"

\* C8 witness: a second session created for the same candidate
C8_Witness ==
    /\ last.op = "createSession"
    /\ last.outcome = "ok"
    /\ Len(interview_sessions) = 2
    /\ interview_sessions[1].candidate_id = last.cand
    /\ interview_sessions[2].candidate_id = last.cand
    /\ RowCount(interviews, 1, InterviewResult) >= 1
    /\ candidates[last.cand] = "INTERVIEW"

\* C9: every session in the store has at least one interview row, so its
\* progress never reports total = 0.
C9_SessionHasInterview ==
    \A i \in 1..Len(interview_sessions) :
        getSessionProgress(getInterviewSessionsWithDetails[i]).total >= 1

\* C10: the progress of a session counts its interview rows (total), those
\* whose result is not PENDING (completed) and those whose result is PASS
\* (passed); percentage is the integer nearest to completed / total * 100:
\* 0 of 3 gives 0, 2 of 3 gives 67, every interview completed gives 100.
C10_ProgressCounts ==
    \A i \in 1..Len(interview_sessions) :
        LET p == getSessionProgress(getInterviewSessionsWithDetails[i])
            total == RowCount(interviews, i, InterviewResult)
            completed == RowCount(interviews, i, {"PASS", "FAIL"})
            passed == RowCount(interviews, i, {"PASS"})
            diff == 100 * completed - p.percentage * total
        IN /\ p.total = total
           /\ p.completed = completed
           /\ p.passed = passed
           /\ p.percentage \in 0..100
           /\ 2 * diff <= total
           /\ -2 * diff <= total
           /\ (total = 3 /\ completed = 0) => p.percentage = 0
           /\ (total = 3 /\ completed = 2) => p.percentage = 67
           /\ (total > 0 /\ completed = total) => p.percentage = 100

\* C10 witness: three interviewers, one PASS, one FAIL, one still PENDING
C10_Witness ==
    \E i \in 1..Len(interview_sessions) :
        /\ last.op = "recordEvaluation"
        /\ getSessionProgress(getInterviewSessionsWithDetails[i])
              = [total |-> 3, completed |-> 2, passed |-> 1, percentage |-> 67]

\* C11: a successful recordDecision adds exactly one decision row, for the
\* page's candidate with the submitted decision, and sets the candidate's
\* status to OFFERED for HIRE and to NOT_HIRED for NO_HIRE, never to HIRED; it
\* adds no employee row (the users table has no writer among these pages).
C11_DecisionSetsOfferedOrNotHired ==
    [][(last'.op = "recordDecision" /\ last'.outcome = "ok") =>
          LET c == last'.cand
              n == Len(decisions')
          IN /\ n = Len(decisions) + 1
             /\ SubSeq(decisions', 1, n - 1) = decisions
             /\ decisions'[n].candidate_id = c
             /\ decisions'[n].decision \in DecisionKind
             /\ decisions'[n].decision = "HIRE" => candidates'[c] = "OFFERED"
             /\ decisions'[n].decision = "NO_HIRE" => candidates'[c] = "NOT_HIRED"
             /\ candidates'[c] # "HIRED"
             /\ \A d \in DOMAIN candidates \ {c} : candidates'[d] = candidates[d]
             /\ employees' = employees]_vars

\* C11 witness: a NO_HIRE decision recorded for a candidate in INTERVIEW
C11_Witness ==
    /\ last.op = "recordDecision"
    /\ last.outcome = "ok"
    /\ Len(decisions) = 1
    /\ decisions[1].decision = "NO_HIRE"
    /\ candidates[last.cand] = "NOT_HIRED"

\* C12: recordDecision for a candidate whose stored status is not INTERVIEW
\* fails, adds no decision row and leaves every candidate's status unchanged.
C12_DecisionOnlyInInterview ==
    [][(last'.op = "recordDecision" /\ candidates[last'.cand] # "INTERVIEW")
          => /\ last'.outcome # "ok"
             /\ decisions' = decisions
             /\ candidates' = candidates]_vars

\* C13: the operation that changes a candidate's stored status records an
\* audit event STATUS_CHANGED for that candidate, holding the previous and the
\* new status and the actor.
C13_StatusChangeAudited ==
    [][\A c \in DOMAIN candidates :
          candidates'[c] # candidates[c] =>
             \E i \in (Len(audit_logs) + 1)..Len(audit_logs') :
                /\ audit_logs'[i].action = "STATUS_CHANGED"
                /\ audit_logs'[i].target_id = c
                /\ audit_logs'[i].payload_json.from = candidates[c]
                /\ audit_logs'[i].payload_json.to = candidates'[c]
                /\ audit_logs'[i].payload_json.actor = user]_vars

\* C14: once the candidate row is inserted, createCandidate ends normally
\* whether the audit insert succeeds or fails: the row stays, the form reaches
\* its submitted state, and the audit table is either extended by the
\* CANDIDATE_CREATED event of that candidate or left as it was.
C14_AuditFailureDoesNotFailCreate ==
    [][\A t \in Tabs :
          (submitting[t] # NoRequest /\ submitting'[t] = NoRequest) =>
             LET id == submitting[t].id
             IN /\ last'.op = "createCandidate"
                /\ last'.outcome = "ok"
                /\ last'.cand = id
                /\ id \in DOMAIN candidates'
                /\ candidates' = candidates
                /\ candidates_key' = candidates_key
                /\ isSubmitted'[t]
                /\ \/ audit_logs' = audit_logs
                   \/ /\ Len(audit_logs') = Len(audit_logs) + 1
                      /\ SubSeq(audit_logs', 1, Len(audit_logs)) = audit_logs
                      /\ audit_logs'[Len(audit_logs')].action = "CANDIDATE_CREATED"
                      /\ audit_logs'[Len(audit_logs')].target_id = id]_vars

\* C14 witness: an application accepted although its audit insert failed
C14_Witness ==
    /\ last.op = "createCandidate"
    /\ last.outcome = "ok"
    /\ last.cand \in DOMAIN candidates
    /\ \E t \in Tabs : isSubmitted[t]
    /\ \A i \in 1..Len(audit_logs) : audit_logs[i].target_id # last.cand

\* no two candidate rows hold the same (email, applied_position_id)
OnePerEmailAndPosition ==
    \A c, d \in DOMAIN candidates_key :
        (/\ candidates_key[c].email = candidates_key[d].email
         /\ candidates_key[c].applied_position_id = candidates_key[d].applied_position_id)
           => c = d

\* C15: after every step, also of submissions that overlap in time, the store
\* holds at most one candidate per (email, applied_position_id); a submission
\* the unique constraint rejects inserts no candidate row, records no audit
\* event and leaves the form out of its submitted state.
C15_OneCandidatePerEmailAndPosition ==
    [][/\ OnePerEmailAndPosition'
       /\ (last'.op = "createCandidate" /\ last'.outcome = "UniqueViolation")
             => /\ candidates' = candidates
                /\ candidates_key' = candidates_key
                /\ audit_logs' = audit_logs
                /\ isSubmitted' = isSubmitted
                /\ submitting' = submitting]_vars

\* C15 witness: a submission rejected as a duplicate while the other tab's
\* submission of the same pair is still in flight
C15_Witness ==
    /\ last.op = "createCandidate"
    /\ last.outcome = "UniqueViolation"
    /\ \E t \in Tabs :
          /\ submitting[t] # NoRequest
          /\ DOMAIN candidates = {submitting[t].id}
          /\ ~isSubmitted[t]

\* the interview rows a step wrote: the rows of the table after the step that
\* were not in it before
WrittenInterviews == BagToSet(interviews') \ BagToSet(interviews)

\* C17: an evaluation in which tech_notes or soft_notes has fewer than 10
\* characters is rejected and leaves the interview row unchanged, through the
\* evaluation form and through a direct call of updateInterview: no row an
\* evaluation writes holds a note shorter than 10 characters.
C17_ShortNotesRejected ==
    [][last'.op \in {"recordEvaluation", "updateInterview"} =>
          \A r \in WrittenInterviews :
             Len(r.tech_notes) >= 10 /\ Len(r.soft_notes) >= 10]_vars

\* the interview rows a step replaced or removed
ModifiedInterviews ==
    {r \in BagToSet(interviews) : CopiesIn(r, interviews') < CopiesIn(r, interviews)}

\* C18: an interview row is modified only by its interviewer or by a user
\* with role HR or ADMIN; an attempt by any other user leaves it unchanged.
C18_OnlyInterviewerOrHrEvaluates ==
    [][\A r \in ModifiedInterviews :
          /\ last'.op \in {"recordEvaluation", "updateInterview"}
          /\ last'.actor \in DOMAIN users
          /\ \/ last'.actor = r.interviewer_id
             \/ users[last'.actor].role \in {"HR", "ADMIN"}]_vars

\* C18 witness: emp2's attempt on the evaluated row of emp1 is refused
C18_Witness ==
    /\ last.op = "updateInterview"
    /\ last.actor = "emp2"
    /\ last.outcome = "NotFound"
    /\ \E r \in BagToSet(interviews) : r.interviewer_id = "emp1" /\ r.result = "FAIL"
    /\ \E r \in BagToSet(interviews) : r.interviewer_id = "emp2" /\ r.result = "PENDING"

\* C19: recordEvaluation changes at most the evaluated interview row, and in
\* it only tech_notes, soft_notes and result: every session, every candidate,
\* every decision and every other interview row stay as they were.
C19_EvaluationChangesOneRow ==
    [][last'.op = "recordEvaluation" =>
          /\ interview_sessions' = interview_sessions
          /\ candidates' = candidates
          /\ decisions' = decisions
          /\ \/ interviews' = interviews
             \/ \E r \in BagToSet(interviews), w \in BagToSet(interviews') :
                   /\ interviews' (-) SetToBag({w}) = interviews (-) SetToBag({r})
                   /\ w.candidate_id = r.candidate_id
                   /\ w.interviewer_id = r.interviewer_id
                   /\ w.interview_session_id = r.interview_session_id
                   /\ r.interviewer_id = last'.actor]_vars

\* C19 witness: the last PENDING interview of a session of three is
\* evaluated; the session is still SCHEDULED and the candidate in INTERVIEW
C19_Witness ==
    /\ last.op = "recordEvaluation"
    /\ last.outcome = "ok"
    /\ Len(interview_sessions) >= 1
    /\ RowCount(interviews, 1, InterviewResult) = 3
    /\ RowCount(interviews, 1, {"PENDING"}) = 0
    /\ interview_sessions[1].status = "SCHEDULED"
    /\ candidates[interview_sessions[1].candidate_id] = "INTERVIEW"

\* the base name of a full name: trimmed, lower-cased, diacritics mapped to
\* their base letters, stripped to a-z and 0-9, cut to 50 characters
baseName(name) == substring(stripNonAlphanumeric(lowerAndReplace(trim(name))), 50)

\* generateUsername has returned
Returned == form_username # NotGenerated

\* the returned name is the base name when that is free, otherwise the base
\* name followed by the smallest k >= 1 that makes a free name; it is free
UsernameOf(base) ==
    /\ base \notin existingUsernames => form_username = base
    /\ base \in existingUsernames =>
          \E k \in 1..1000 :
             /\ base \o numberToString(k) \notin existingUsernames
             /\ \A j \in 1..(k - 1) : base \o numberToString(j) \in existingUsernames
             /\ form_username = base \o numberToString(k)
    /\ form_username \notin existingUsernames

\* the examples: Nguyen Van An with no username taken and with nguyenvanan
\* taken, Le Hoang Cuong with lehoangcuong and lehoangcuong1 taken
UsernameExamples ==
    /\ (full_name = NguyenVanAn /\ existingUsernames = {})
          => form_username = nguyenvanan
    /\ (full_name = NguyenVanAn /\ existingUsernames = {nguyenvanan})
          => form_username = nguyenvanan \o <<"1">>
    /\ (full_name = LeHoangCuong
        /\ existingUsernames = {lehoangcuong, lehoangcuong \o <<"1">>})
          => form_username = lehoangcuong \o <<"2">>

\* C20, as stated: for every full name and every list of usernames,
\* generateUsername returns the base name when it is not in the list, otherwise
\* the base name followed by the smallest k >= 1 whose name is not in the
\* list; the returned name is never in the list.
C20_UsernameIsBaseOrSmallestSuffix ==
    Returned => UsernameOf(baseName(full_name)) /\ UsernameExamples

\* C20, amended: the same for every full name whose base name is not empty
\* and every list in which the base name or one of its variants numbered 1 to
\* 999 is free.
C20_UsernameOfNonEmptyBase ==
    LET base == baseName(full_name)
    IN (/\ Returned
        /\ Len(base) > 0
        /\ \/ base \notin existingUsernames
           \/ \E k \in 1..999 : base \o numberToString(k) \notin existingUsernames)
          => UsernameOf(base) /\ UsernameExamples

\* C20 witness: Le Hoang Cuong with lehoangcuong and lehoangcuong1 taken
C20_Witness ==
    /\ full_name = LeHoangCuong
    /\ existingUsernames = {lehoangcuong, lehoangcuong \o <<"1">>}
    /\ form_username = lehoangcuong \o <<"2">>

\* C16: no two rows of employees have the same non-empty national_id, and a
\* createEmployee or updateEmployee, from EmployeeProfile or from
\* EmployeeDetailModal, that would give a second row a national_id already in
\* use is rejected and leaves employees unchanged.
NationalIdsUnique(tbl) ==
    \A i, j \in 1..Len(tbl) :
        (i # j /\ tbl[i].national_id # <<>>) => tbl[i].national_id # tbl[j].national_id

C16_NationalIdUnique ==
    /\ NationalIdsUnique(employees)
    /\ (/\ last.op \in {"createEmployee", "updateEmployee"}
        /\ last.outcome = "ok")
       => Cardinality({i \in 1..Len(employees) : employees[i].national_id = last.to}) = 1

\* C21: whenever the full name, trimmed, lower-cased, transliterated and
\* stripped, is empty (the empty name, a name of white space, a name of
\* characters outside a-z and 0-9), generateUsername uses the base name user:
\* when user is not taken it returns user.
C21_EmptyBaseGivesUser ==
    (/\ Returned
     /\ Len(baseName(full_name)) = 0
     /\ <<"u", "s", "e", "r">> \notin existingUsernames)
       => form_username = <<"u", "s", "e", "r">>

\* C22: generateUsername terminates for every full name and every list of
\* usernames: the loop makes at most 1000 iterations, the thousandth (and no
\* earlier one) ends the call with the timestamp name, also when the base name
\* and every numbered name tried are taken.
C22_LoopEndsWithinThousand ==
    /\ [](/\ counter <= 1001
          /\ counter = 1001 =>
                /\ Returned
                /\ \E now \in NowInputs : form_username = usernameBase(full_name) \o now
          /\ (Returned /\ counter \in 2..1000) =>
                form_username = usernameBase(full_name) \o numberToString(counter - 1))
    /\ <>Returned

\* C22 witness: a and a1 to a999 are taken, and so are the timestamp names;
\* the call has returned after 1000 iterations
C22_Witness ==
    /\ counter = 1001
    /\ Returned
    /\ full_name = <<"A">>
    /\ form_username \in existingUsernames
    /\ <<"a", "9", "9", "9">> \in existingUsernames

\* C23: generateUsername is a pure function: two calls with the same full
\* name and the same list return the same username, also when the list holds
\* the base name and every numbered name tried; membership in the list is an
\* exact, case-sensitive match.
C23_SameArgumentsSameUsername ==
    /\ (Returned /\ previousUsername # NotGenerated) => form_username = previousUsername
    /\ (Returned /\ counter >= 1 /\ usernameBase(full_name) \notin existingUsernames)
          => form_username = usernameBase(full_name)

\* C24: ProtectedRoute shows a protected page only to a signed-in user whose
\* role is among the allowedRoles of the route; a visitor who is not signed in
\* is sent to /login, and a signed-in user whose role is not allowed, or who
\* has no role, is sent to /unauthorized and never sees the page.
C24_PageOnlyForAllowedRole ==
    /\ rendered.element \in Pages =>
          /\ user # NULL
          /\ role \in ProtectedRoutes[rendered.path].allowedRoles
    /\ (~loading /\ user = NULL) => path \notin DOMAIN ProtectedRoutes

\* C25: the status update is not guarded against concurrent actors: when two
\* HR or ADMIN actors act on the same candidate from the status each has read,
\* both updates are applied in turn, whatever the stored status is by then (the
\* last write wins), so the statuses stored for one candidate may make a step
\* that is not in the transition table.
C25_LastWriteWins ==
    [][(/\ last'.op \in {"updateCandidateStatus", "recordDecision"}
        /\ last'.outcome = "ok")
          => /\ candidates'[last'.cand] = last'.to
             /\ \A c \in DOMAIN candidates \ {last'.cand} : candidates'[c] = candidates[c]]_vars

\* C25 witness: HR has rejected the candidate and its page shows REJECTED;
\* the administrator, whose page still shows SUBMITTED, has just approved it
C25_Witness ==
    /\ candidate = [id |-> "c1", status |-> "REJECTED"]
    /\ peerCandidate = [id |-> "c1", status |-> "SUBMITTED"]
    /\ last = LastBy(peerUser, "updateCandidateStatus", "ok", "c1", "APPROVED")
    /\ candidates["c1"] = "APPROVED"

\* C27: in every state, whatever the interleaving of two actors recording
\* decisions for the same candidate and whichever store calls fail, a
\* candidate whose stored status is OFFERED has a decisions row with HIRE.
C27_OfferedHasHireDecision ==
    \A c \in DOMAIN candidates :
        candidates[c] = "OFFERED" =>
            \E i \in 1..Len(decisions) :
                decisions[i].candidate_id = c /\ decisions[i].decision = "HIRE"

\* C27 witness: HR recorded HIRE, the administrator then NO_HIRE, and HR, whose
\* form was still open after a failed update, recorded HIRE again
C27_Witness ==
    /\ candidates["c1"] = "OFFERED"
    /\ Len(decisions) = 2
    /\ decisions[1].decided_by # decisions[2].decided_by
    /\ last.op = "recordDecision"
    /\ last.outcome = "ok"

\* C26: in every state every interview session has the status SCHEDULED: it
\* is created with it, and recording evaluations (the last outstanding one
\* included), recording a decision and changing the candidate's status never
\* change it.
C26_SessionsStayScheduled ==
    \A i \in 1..Len(interview_sessions) : interview_sessions[i].status = "SCHEDULED"

\* C26 witness: every interview of the session is evaluated and the decision
\* is recorded; the session is still SCHEDULED
C26_Witness ==
    /\ Len(interview_sessions) >= 1
    /\ interview_sessions[1].status = "SCHEDULED"
    /\ RowCount(interviews, 1, InterviewResult) >= 1
    /\ RowCount(interviews, 1, {"PENDING"}) = 0
    /\ Len(decisions) >= 1
    /\ candidates[interview_sessions[1].candidate_id] \in {"OFFERED", "NOT_HIRED"}

\* the progress of the session sid as InterviewList shows it
progressOf(sid) == getSessionProgress(getInterviewSessionsWithDetails[sid])

\* C28: recordEvaluation can be applied again and again to one interview and
\* the last write wins: after a successful call the result of the row is the
\* result submitted, whatever it was, PASS or FAIL back to PENDING included;
\* so completed and percentage of a session's progress may decrease.
C28_EvaluationLastWriteWins ==
    [][(last'.op = "recordEvaluation" /\ last'.outcome = "ok") =>
          \E row \in getMyInterviews(last'.actor) :
             LET sid == row.interview_session_id
                 before == progressOf(sid)
                 after == progressOf(sid)'
             IN /\ last'.detail.reopened
                      = (row.result # "PENDING" /\ last'.detail.result = "PENDING")
                /\ \E tech \in NotesInputs, soft \in NotesInputs :
                      interviews' = (interviews (-) SetToBag({row}))
                          (+) SetToBag({[row EXCEPT !.tech_notes = tech,
                                                    !.soft_notes = soft,
                                                    !.result = last'.detail.result]})
                /\ (row.result # "PENDING" /\ last'.detail.result = "PENDING") =>
                      /\ after.completed = before.completed - 1
                      /\ after.percentage < before.percentage]_vars

\* C28 witness: an interviewer has just set an evaluated interview back to
\* PENDING, and the session's progress is below 100 again
C28_Witness ==
    /\ last.op = "recordEvaluation"
    /\ last.outcome = "ok"
    /\ last.detail.reopened
    /\ last.detail.result = "PENDING"
    /\ Len(interview_sessions) >= 1
    /\ progressOf(1).completed < progressOf(1).total

\* C29: every username generateUsername writes into the user form, which
\* calls it for every full name longer than 2 characters, satisfies the
\* username rule of userSchema, also when the base name has 50 characters and
\* needs a number, and when the stripped base name has fewer than 3.
C29_GeneratedUsernameIsValid ==
    (Returned /\ Len(full_name) > 2) => userSchema_username(form_username)

====
